---- MODULE Spec2Model ----
(***************************************************************************)
(* The polariton network engine: entity graph (PolaritonMode, PhononMode,  *)
(* NonResonantDriving), the Cavity that flattens it into a state vector,   *)
(* its vector field and its two steppers, the INI loader and the driver.   *)
(*                                                                         *)
(* Numbers: a double is modelled by an integer, a complex number by a pair *)
(* <<re, im>>.  Angles are counted in quarter turns, so std::polar(1.0, a) *)
(* takes the four values 1, i, -1, -i.                                     *)
(***************************************************************************)
EXTENDS Integers, Sequences, FiniteSets, TLC

VARIABLES
    polaritons,       \* Cavity::polaritons, the oscillators in creation order
    phonons,          \* Cavity::phonons, the mechanical modes in creation order
    current_state,    \* Cavity::current_state, the flat vector (component c at c+1)
    current_time,     \* Cavity::current_time
    used_time_step,   \* Cavity::used_time_step
    system_dimension, \* Cavity::system_dimension
    evaluating_rhs,   \* Cavity::evaluating_rhs
    pc,               \* where the program is: "build", "ready", driver positions
    dxdt,             \* the derivative vector written by the last operator()
    call,             \* the last operation, its arguments and what it saw on entry
    ref,              \* one earlier operator() call kept for comparison
    drv               \* the driver of build_from_file.cpp: counters and output

vars == <<polaritons, phonons, current_state, current_time, used_time_step,
          system_dimension, evaluating_rhs, pc, dxdt, call, ref, drv>>

----------------------------------------------------------------------------
(* Bounds of the model *)

MaxPol == 2
MaxPh == 1
MaxOps == 3
MaxTime == 9
\* the largest magnitude a component of the state vector holds; sums beyond it saturate
Limit == 8
\* every attempt of the adaptive stepper with a step this small is accepted
SafeStep == 1
MaxLinks == 2

\* double used_time_step = 1e-3, in ticks of the model's clock
InitialStep == 8

(* Parameter values the operations are tried with *)
Amplitudes == {<<2, 3>>}
Positions == {4}
Velocities == {5}
Populations == {6, 7}
Gammas == {1}
Nonlinearities == {1}
Frequencies == {1}
StartTimes == {0, 1}
StepSizes == {2, 4}
EvalTimes == {1, 3}

----------------------------------------------------------------------------
(* Complex arithmetic on pairs *)

\* F applied to the value of v, v being evaluated once
Bind(v, F(_)) == CHOOSE r \in {F(w) : w \in {v}} : TRUE

Re(z) == z[1]
Im(z) == z[2]
CAdd(a, b) ==
    Bind(<<a, b>>, LAMBDA z : <<z[1][1] + z[2][1], z[1][2] + z[2][2]>>)
CMul(a, b) ==
    Bind(<<a, b>>, LAMBDA z : <<z[1][1] * z[2][1] - z[1][2] * z[2][2],
                                 z[1][1] * z[2][2] + z[1][2] * z[2][1]>>)
CConj(a) == Bind(a, LAMBDA z : <<z[1], -z[2]>>)
CReal(r) == <<r, 0>>
ImagUnit == <<0, 1>>
MinusI == <<0, -1>>

\* std::polar(1.0, a), a in quarter turns
Polar(a) ==
    CASE a % 4 = 0 -> <<1, 0>>
      [] a % 4 = 1 -> <<0, 1>>
      [] a % 4 = 2 -> <<-1, 0>>
      [] a % 4 = 3 -> <<0, -1>>

----------------------------------------------------------------------------
(* Entities *)

\* NonResonantDriving(polariton_mode, coupling, tau, P, alpha_, n0)
NonResonantDriving(coupling, tau, P, alpha_, n0) ==
    [coupling_constant |-> coupling, time_factor |-> tau, power |-> P,
     alpha |-> alpha_, value |-> n0]

\* PolaritonMode(gamma, U); reservoir_owned is <<>> for a null unique_ptr
PolaritonMode(gamma, U) ==
    [neighboring_polaritons |-> <<>>, neighboring_phonons |-> <<>>,
     constant_couplings |-> <<>>, phonon_couplings |-> <<>>,
     detunings_from_resonance |-> <<>>, signs |-> <<>>, n_neighbors |-> 0,
     r_driving_amp |-> <<0, 0>>, r_driving_detuning |-> 0,
     reservoir_owned |-> <<>>, reservoir_coupling |-> 0,
     dissipative_gamma |-> gamma, self_interaction |-> U, value |-> <<0, 0>>]

\* PhononMode(Omega, Gamma)
PhononMode(Omega, Gamma) ==
    [pairs |-> <<>>, detunings |-> <<>>, couplings |-> <<>>, n_pairings |-> 0,
     frequency |-> Omega, dissipation |-> Gamma, position |-> 0, velocity |-> 0]

\* a connect that forgets the sign of the link
connect_NoSign(P, p, to, phonon, J, g, delta, above) ==
    [P EXCEPT ![p] =
        [@ EXCEPT !.neighboring_polaritons = Append(@, to),
                  !.neighboring_phonons = Append(@, phonon),
                  !.constant_couplings = Append(@, J),
                  !.phonon_couplings = Append(@, g),
                  !.detunings_from_resonance = Append(@, delta),
                  !.n_neighbors = @ + 1]]

\* PolaritonMode::connect, on oscillator p of the list P
connect(P, p, to, phonon, J, g, delta, above) ==
    [P EXCEPT ![p] =
        [@ EXCEPT !.neighboring_polaritons = Append(@, to),
                  !.neighboring_phonons = Append(@, phonon),
                  !.constant_couplings = Append(@, J),
                  !.phonon_couplings = Append(@, g),
                  !.detunings_from_resonance = Append(@, delta),
                  !.signs = Append(@, IF above THEN 1 ELSE -1),
                  !.n_neighbors = @ + 1]]

\* an add_reservoir that leaves an oscillator that owns a reservoir as it is
add_reservoir_KeepsFirst(P, p, coupling, tau, pump_power, alpha, initial_n) ==
    IF P[p].reservoir_owned # <<>> THEN P
    ELSE [P EXCEPT ![p] =
             [@ EXCEPT !.reservoir_owned =
                           <<NonResonantDriving(coupling, tau, pump_power, alpha, initial_n)>>,
                       !.reservoir_coupling = coupling]]

\* PolaritonMode::add_reservoir
add_reservoir(P, p, coupling, tau, pump_power, alpha, initial_n) ==
    [P EXCEPT ![p] =
        [@ EXCEPT !.reservoir_owned =
                      <<NonResonantDriving(coupling, tau, pump_power, alpha, initial_n)>>,
                  !.reservoir_coupling = coupling]]

\* PolaritonMode::get_reservoir() != nullptr
HasReservoir(pol) == pol.reservoir_owned # <<>>

\* PolaritonMode::set_driving
set_driving(P, p, amp, detuning) ==
    [P EXCEPT ![p] = [@ EXCEPT !.r_driving_amp = amp, !.r_driving_detuning = detuning]]

\* PhononMode::add_pairing
add_pairing(H, h, pair, delta, coupling) ==
    [H EXCEPT ![h] =
        [@ EXCEPT !.pairs = Append(@, pair),
                  !.detunings = Append(@, delta),
                  !.couplings = Append(@, coupling),
                  !.n_pairings = @ + 1]]

\* PolaritonMode::check: the six link arrays have one length
PolaritonCheckOk(pol) ==
    LET d == <<Len(pol.neighboring_polaritons), Len(pol.neighboring_phonons),
               Len(pol.constant_couplings), Len(pol.phonon_couplings),
               Len(pol.detunings_from_resonance), Len(pol.signs)>>
    IN \A i \in 1..6 : d[i] = d[1]

\* PhononMode::check
PhononCheckOk(ph) ==
    LET d == <<Len(ph.pairs), Len(ph.detunings), Len(ph.couplings)>>
    IN \A i \in 1..3 : d[i] = d[1]

----------------------------------------------------------------------------
(* Entity derivatives *)

RECURSIVE LinkSum_Unweighted(_, _, _, _, _)
\* a loop that adds every neighbor's amplitude whatever the couplings of the link
LinkSum_Unweighted(P, H, pol, i, t) ==
    IF i > pol.n_neighbors THEN <<0, 0>>
    ELSE LET ph == H[pol.neighboring_phonons[i]]
             phase == pol.signs[i] * (ph.frequency + pol.detunings_from_resonance[i]) * t
             term == CMul(Polar(phase), P[pol.neighboring_polaritons[i]].value)
         IN CAdd(term, LinkSum_Unweighted(P, H, pol, i + 1, t))

RECURSIVE LinkSum(_, _, _, _, _)
\* the loop of PolaritonMode::derivative over links i..n_neighbors
LinkSum(P, H, pol, i, t) ==
    IF i > pol.n_neighbors THEN <<0, 0>>
    ELSE LET ph == H[pol.neighboring_phonons[i]]
             phase == pol.signs[i] * (ph.frequency + pol.detunings_from_resonance[i]) * t
             phonon_term == pol.phonon_couplings[i] * ph.position
             term == CMul(CMul(CReal(pol.constant_couplings[i] + phonon_term), Polar(phase)),
                          P[pol.neighboring_polaritons[i]].value)
         IN CAdd(term, LinkSum(P, H, pol, i + 1, t))

\* PolaritonMode::derivative
PolaritonDerivative(P, H, p, t) ==
    LET pol == P[p]
        res == IF HasReservoir(pol) THEN CReal(pol.reservoir_owned[1].value) ELSE <<0, 0>>
        bracket == CAdd(CAdd(CMul(MinusI, CReal(pol.dissipative_gamma)),
                             CMul(CMul(CReal(pol.self_interaction), pol.value), CConj(pol.value))),
                        CMul(CMul(ImagUnit, CReal(pol.reservoir_coupling)), res))
        local == CAdd(CMul(pol.value, bracket),
                      CMul(pol.r_driving_amp, Polar(pol.r_driving_detuning * t)))
    IN CMul(MinusI, CAdd(local, LinkSum(P, H, pol, 1, t)))

RECURSIVE Backaction_Unweighted(_, _, _, _)
\* a loop that adds every pair's cross term whatever the coupling of the pairing
Backaction_Unweighted(P, ph, i, t) ==
    IF i > ph.n_pairings THEN <<0, 0>>
    ELSE LET phase_factor == Polar(-(ph.frequency + ph.detunings[i]) * t)
             term == CMul(CMul(P[ph.pairs[i][1]].value, CConj(P[ph.pairs[i][2]].value)),
                          phase_factor)
         IN CAdd(term, Backaction_Unweighted(P, ph, i + 1, t))

RECURSIVE Backaction(_, _, _, _)
\* the loop of PhononMode::second_derivative over pairings i..n_pairings
Backaction(P, ph, i, t) ==
    IF i > ph.n_pairings THEN <<0, 0>>
    ELSE LET phase_factor == Polar(-(ph.frequency + ph.detunings[i]) * t)
             term == CMul(CMul(CMul(CReal(ph.couplings[i]), P[ph.pairs[i][1]].value),
                               CConj(P[ph.pairs[i][2]].value)), phase_factor)
         IN CAdd(term, Backaction(P, ph, i + 1, t))

\* PhononMode::second_derivative
PhononSecondDerivative(P, H, h, t) ==
    LET ph == H[h]
    IN -ph.frequency * ph.frequency * ph.position - ph.dissipation * ph.velocity
       + (-2) * ph.frequency * ph.dissipation * Re(Backaction(P, ph, 1, t))

\* NonResonantDriving::derivative, for the reservoir owned by oscillator p
ReservoirDerivative(P, p, t) ==
    LET r == P[p].reservoir_owned[1]
        intensity == Re(CMul(P[p].value, CConj(P[p].value)))
    IN r.time_factor * (r.power - r.value * (1 + r.alpha * r.alpha * intensity))

----------------------------------------------------------------------------
(* Cavity: the flat state vector *)

\* arma::vec element write v(idx) = val, idx counted from 0
Write(v, idx, val) ==
    Bind(v, LAMBDA w : IF idx < Len(w) THEN [w EXCEPT ![idx + 1] = val] ELSE w)

\* a count that forgets the reservoirs
CountDimension_NoReservoirs(P, H) == 2 * Len(P) + 2 * Len(H)

\* the dimension computed by the constructor and by load_from_ini
CountDimension(P, H) ==
    2 * Len(P) + 2 * Len(H) + Cardinality({k \in 1..Len(P) : HasReservoir(P[k])})

\* current_state.set_size(n): n components, contents unspecified until packed
SetSize(n) == [c \in 1..n |-> 0]

RECURSIVE PackPolaritons(_, _, _, _)
\* first loop of pack_state, from oscillator k with running index idx
PackPolaritons(P, v, k, idx) ==
    IF k > Len(P) THEN v
    ELSE PackPolaritons(P, Write(Write(v, idx, Re(P[k].value)), idx + 1, Im(P[k].value)),
                        k + 1, idx + 2)

RECURSIVE PackPhonons(_, _, _, _)
\* second loop of pack_state
PackPhonons(H, v, k, idx) ==
    IF k > Len(H) THEN v
    ELSE PackPhonons(H, Write(Write(v, idx, H[k].position), idx + 1, H[k].velocity),
                     k + 1, idx + 2)

RECURSIVE PackReservoirs_Backwards(_, _, _, _)
\* a pack that lays the reservoirs out from the last oscillator to the first
PackReservoirs_Backwards(P, v, k, idx) ==
    IF k > Len(P) THEN v
    ELSE LET q == Len(P) + 1 - k
         IN IF HasReservoir(P[q])
            THEN PackReservoirs_Backwards(P, Write(v, idx, P[q].reservoir_owned[1].value),
                                          k + 1, idx + 1)
            ELSE PackReservoirs_Backwards(P, v, k + 1, idx)

RECURSIVE PackReservoirs(_, _, _, _)
\* third loop of pack_state: one component per oscillator that owns a reservoir
PackReservoirs(P, v, k, idx) ==
    IF k > Len(P) THEN v
    ELSE IF HasReservoir(P[k])
         THEN PackReservoirs(P, Write(v, idx, P[k].reservoir_owned[1].value), k + 1, idx + 1)
         ELSE PackReservoirs(P, v, k + 1, idx)

\* Cavity::pack_state: the new current_state
PackState(P, H, v) ==
    PackReservoirs(P, PackPhonons(H, PackPolaritons(P, v, 1, 0), 1, 2 * Len(P)),
                   1, 2 * Len(P) + 2 * Len(H))

RECURSIVE UnpackPolaritons_Swapped(_, _, _, _)
\* an unpack that reads the imaginary part first
UnpackPolaritons_Swapped(P, x, k, idx) ==
    IF k > Len(P) THEN P
    ELSE UnpackPolaritons_Swapped([P EXCEPT ![k].value = <<x[idx + 2], x[idx + 1]>>],
                                  x, k + 1, idx + 2)

RECURSIVE UnpackPolaritons(_, _, _, _)
\* first loop of unpack_state
UnpackPolaritons(P, x, k, idx) ==
    IF k > Len(P) THEN P
    ELSE UnpackPolaritons([P EXCEPT ![k].value = <<x[idx + 1], x[idx + 2]>>], x, k + 1, idx + 2)

RECURSIVE UnpackPhonons(_, _, _, _)
\* second loop of unpack_state
UnpackPhonons(H, x, k, idx) ==
    IF k > Len(H) THEN H
    ELSE UnpackPhonons([H EXCEPT ![k].position = x[idx + 1], ![k].velocity = x[idx + 2]],
                       x, k + 1, idx + 2)

RECURSIVE UnpackReservoirs(_, _, _, _)
\* third loop of unpack_state
UnpackReservoirs(P, x, k, idx) ==
    IF k > Len(P) THEN P
    ELSE IF HasReservoir(P[k])
         THEN UnpackReservoirs([P EXCEPT ![k].reservoir_owned[1].value = x[idx + 1]],
                               x, k + 1, idx + 1)
         ELSE UnpackReservoirs(P, x, k + 1, idx)

\* Cavity::unpack_state(x): the oscillators afterwards
UnpackStateP(P, H, x) ==
    UnpackReservoirs(UnpackPolaritons(P, x, 1, 0), x, 1, 2 * Len(P) + 2 * Len(H))

\* Cavity::unpack_state(x): the mechanical modes afterwards
UnpackStateH(P, H, x) == UnpackPhonons(H, x, 1, 2 * Len(P))

----------------------------------------------------------------------------
(* Cavity::operator(): the vector field *)

RECURSIVE DerivPolaritons(_, _, _, _, _, _)
DerivPolaritons(P, H, d, k, idx, t) ==
    IF k > Len(P) THEN d
    ELSE LET z == PolaritonDerivative(P, H, k, t)
         IN DerivPolaritons(P, H, Write(Write(d, idx, Re(z)), idx + 1, Im(z)), k + 1, idx + 2, t)

RECURSIVE DerivPhonons_Swapped(_, _, _, _, _, _)
\* a second loop that writes the acceleration first and the velocity after it
DerivPhonons_Swapped(P, H, d, k, idx, t) ==
    IF k > Len(H) THEN d
    ELSE DerivPhonons_Swapped(P, H,
                              Write(Write(d, idx, PhononSecondDerivative(P, H, k, t)),
                                    idx + 1, H[k].velocity),
                              k + 1, idx + 2, t)

RECURSIVE DerivPhonons(_, _, _, _, _, _)
DerivPhonons(P, H, d, k, idx, t) ==
    IF k > Len(H) THEN d
    ELSE DerivPhonons(P, H,
                      Write(Write(d, idx, H[k].velocity), idx + 1, PhononSecondDerivative(P, H, k, t)),
                      k + 1, idx + 2, t)

RECURSIVE DerivReservoirs(_, _, _, _, _)
DerivReservoirs(P, d, k, idx, t) ==
    IF k > Len(P) THEN d
    ELSE IF HasReservoir(P[k])
         THEN DerivReservoirs(P, Write(d, idx, ReservoirDerivative(P, k, t)), k + 1, idx + 1, t)
         ELSE DerivReservoirs(P, d, k + 1, idx, t)

\* the three derivative loops of operator(), on entities P, H, output of size n
Derivatives(P, H, n, t) ==
    DerivReservoirs(P, DerivPhonons(P, H, DerivPolaritons(P, H, SetSize(n), 1, 0, t),
                                    1, 2 * Len(P), t),
                    1, 2 * Len(P) + 2 * Len(H), t)

\* an operator() that works on copies and leaves the entities as it found them
Evaluate_OnCopies(P, H, n, x, t) ==
    Bind(<<UnpackStateP(P, H, x), UnpackStateH(P, H, x)>>,
         LAMBDA E : [P |-> P, H |-> H, dxdt |-> Derivatives(E[1], E[2], n, t)])

\* an operator() that asks for the derivatives before it unpacks its argument
Evaluate_StaleEntities(P, H, n, x, t) ==
    [P |-> UnpackStateP(P, H, x), H |-> UnpackStateH(P, H, x),
     dxdt |-> Derivatives(P, H, n, t)]

\* Cavity::operator()(x, dxdt, t): unpack x, then ask every entity for its derivative.
\* The result holds the entities left behind and the output vector.
Evaluate(P, H, n, x, t) ==
    Bind(<<UnpackStateP(P, H, x), UnpackStateH(P, H, x)>>,
         LAMBDA E : [P |-> E[1], H |-> E[2], dxdt |-> Derivatives(E[1], E[2], n, t)])

----------------------------------------------------------------------------
(* The record kept of the last operation *)

NoCall == [op |-> "none", prev |-> "none", pprev |-> "none", P0 |-> <<>>, H0 |-> <<>>, x |-> <<>>,
           file |-> <<>>,
           t |-> 0, dt |-> 0, time0 |-> 0, step0 |-> 0, state0 |-> <<>>,
           ok |-> TRUE, n |-> 0]

\* the record of operation op entered in the current state; while the graph is
\* being built only the operation's name is kept
Entered(op) ==
    IF pc = "build" THEN [NoCall EXCEPT !.op = op]
    ELSE [NoCall EXCEPT !.op = op, !.prev = call.op, !.pprev = call.prev,
                        !.P0 = polaritons, !.H0 = phonons,
                        !.time0 = current_time, !.step0 = used_time_step,
                        !.state0 = current_state, !.n = call.n + 1]

NoRef == [x |-> <<>>, t |-> 0, out |-> <<>>, set |-> FALSE, P0 |-> <<>>, n |-> 0]
\* a name-to-id map of CavityConfig with no entries
EmptyMap == [n \in {} |-> 0]

\* what main of build_from_file.cpp holds: the loop counter, the attempts made and
\* rejected, the rejections in a row, the samples summed, whether the output file
\* was written, the exit status (-1 while running), config's polariton_map and
\* phonon_map, dt
NoDriver == [i |-> 0, attempts |-> 0, rejected |-> 0, streak |-> 0, samples |-> 0,
             written |-> FALSE, status |-> -1, polariton_map |-> EmptyMap,
             phonon_map |-> EmptyMap, dt |-> 0]

cavity == <<current_state, current_time, used_time_step, system_dimension, evaluating_rhs>>
ghost == <<dxdt, ref, drv>>

----------------------------------------------------------------------------
(* Building the entity graph through the public interface *)

\* PolaritonMode site(gamma, U), appended to the list handed to the Cavity
NewPolariton ==
    /\ pc = "build" /\ Len(polaritons) < MaxPol
    /\ \E gamma \in Gammas, U \in Nonlinearities :
           polaritons' = Append(polaritons, PolaritonMode(gamma, U))
    /\ call' = Entered("PolaritonMode")
    /\ UNCHANGED <<phonons, cavity, pc, ghost>>

\* PhononMode phonon(Omega, Gamma)
NewPhonon ==
    /\ pc = "build" /\ Len(phonons) < MaxPh
    /\ \E Omega \in Frequencies, Gamma \in Gammas :
           phonons' = Append(phonons, PhononMode(Omega, Gamma))
    /\ call' = Entered("PhononMode")
    /\ UNCHANGED <<polaritons, cavity, pc, ghost>>

\* PolaritonMode::set_value, before or after the Cavity is constructed
SetValue ==
    /\ pc \in {"build", "ready"}
    /\ pc = "ready" => call.n < MaxOps
    /\ \E p \in 1..Len(polaritons), val \in Amplitudes :
           /\ polaritons[p].value # val
           /\ polaritons' = [polaritons EXCEPT ![p].value = val]
    /\ call' = Entered("set_value")
    /\ UNCHANGED <<phonons, cavity, pc, ghost>>

\* PhononMode::set_position and PhononMode::set_velocity
SetPhonon ==
    /\ pc \in {"build", "ready"}
    /\ pc = "ready" => call.n < MaxOps
    /\ \E h \in 1..Len(phonons), x \in Positions, v \in Velocities :
           /\ <<phonons[h].position, phonons[h].velocity>> # <<x, v>>
           /\ phonons' = [phonons EXCEPT ![h].position = x, ![h].velocity = v]
    /\ call' = Entered("set_position")
    /\ UNCHANGED <<polaritons, cavity, pc, ghost>>

\* the coupling and the initial population a reservoir is added with
ReservoirArgs == {<<n0 - 5, n0>> : n0 \in Populations}

\* PolaritonMode::add_reservoir before construction; a second call replaces the first
AddReservoir ==
    /\ pc = "build"
    /\ \E p \in 1..Len(polaritons), args \in ReservoirArgs :
           /\ IF HasReservoir(polaritons[p])
              THEN polaritons[p].reservoir_owned[1].value # args[2] ELSE TRUE
           /\ polaritons' = add_reservoir(polaritons, p, args[1], 1, 2, 1, args[2])
           /\ call' = [Entered("add_reservoir") EXCEPT !.t = p, !.x = args, !.P0 = polaritons]
    /\ UNCHANGED <<phonons, cavity, pc, ghost>>

RECURSIVE Wired(_, _, _)
\* the links and pairings made so far on oscillators k.. and modes k..
Wired(P, H, k) ==
    IF k > Len(P) /\ k > Len(H) THEN 0
    ELSE (IF k <= Len(P) THEN P[k].n_neighbors ELSE 0)
         + (IF k <= Len(H) THEN H[k].n_pairings ELSE 0) + Wired(P, H, k + 1)

\* PolaritonMode::connect: any oscillator, itself included, any number of times
Connect ==
    /\ pc = "build" /\ Wired(polaritons, phonons, 1) < MaxLinks
    /\ \E p \in 1..Len(polaritons), to \in 1..Len(polaritons), h \in 1..Len(phonons),
          above \in BOOLEAN :
           polaritons' = connect(polaritons, p, to, h, 0, 1, 0, above)
    /\ call' = Entered("connect")
    /\ UNCHANGED <<phonons, cavity, pc, ghost>>

\* PhononMode::add_pairing
AddPairing ==
    /\ pc = "build" /\ Wired(polaritons, phonons, 1) < MaxLinks
    /\ \E h \in 1..Len(phonons), a \in 1..Len(polaritons), b \in 1..Len(polaritons) :
           phonons' = add_pairing(phonons, h, <<a, b>>, 0, 1)
    /\ call' = Entered("add_pairing")
    /\ UNCHANGED <<polaritons, cavity, pc, ghost>>

\* Cavity::Cavity(polariton_modes, phonon_modes, t0)
Construct ==
    /\ pc = "build"
    /\ \E t0 \in StartTimes :
        IF /\ \A p \in 1..Len(polaritons) : PolaritonCheckOk(polaritons[p])
           /\ \A h \in 1..Len(phonons) : PhononCheckOk(phonons[h])
        THEN LET N == CountDimension(polaritons, phonons)
             IN /\ system_dimension' = N
                /\ current_state' = PackState(polaritons, phonons, SetSize(N))
                /\ current_time' = t0
                /\ pc' = "ready"
        ELSE /\ pc' = "domain_error"
             /\ UNCHANGED <<system_dimension, current_state, current_time>>
    /\ used_time_step' = InitialStep
    /\ evaluating_rhs' = FALSE
    /\ call' = [NoCall EXCEPT !.op = "Cavity"]
    /\ UNCHANGED <<polaritons, phonons, ghost>>

\* Cavity::pack_state called by the program
PackStateCall ==
    /\ pc = "ready" /\ call.n < MaxOps
    /\ current_state' = PackState(polaritons, phonons, current_state)
    /\ call' = Entered("pack_state")
    /\ UNCHANGED <<polaritons, phonons, current_time, used_time_step, system_dimension,
                   evaluating_rhs, pc, ghost>>

\* Cavity::unpack_state(get_state()) called by the program
UnpackStateCall ==
    /\ pc = "ready" /\ call.n < MaxOps
    /\ polaritons' = UnpackStateP(polaritons, phonons, current_state)
    /\ phonons' = UnpackStateH(polaritons, phonons, current_state)
    /\ call' = [Entered("unpack_state") EXCEPT !.x = current_state]
    /\ UNCHANGED <<cavity, pc, ghost>>

----------------------------------------------------------------------------
(* cavity_config.h: building a Cavity from a declarative description *)

\* the sections a file may hold; a value is the number get_double returns for it
PolaritonSection(name, re, im) ==
    [type |-> "polariton", name |-> name, gamma |-> 1, U |-> 1,
     initial_real |-> re, initial_imag |-> im]
PhononSection(name) ==
    [type |-> "phonon", name |-> name, omega |-> 1, gamma |-> 1,
     initial_position |-> 4, initial_velocity |-> 5]
ReservoirSection(name, target, n0) ==
    [type |-> "reservoir", name |-> name, target |-> target, coupling |-> 1, tau |-> 1,
     power |-> 2, alpha |-> 1, n0 |-> n0]
CouplingSection(name, from, to, phonon, above) ==
    [type |-> "coupling", name |-> name, from |-> from, to |-> to, phonon |-> phonon,
     J |-> 0, g |-> 1, delta |-> 0, above |-> above]
PairingSection(name, phonon, sites) ==
    [type |-> "pairing", name |-> name, phonon |-> phonon, sites |-> sites,
     g |-> 1, delta |-> 0]

\* std::sqrt on the model's numbers
Sqrt(a) == CHOOSE r \in 0..a : r * r <= a /\ a < (r + 1) * (r + 1)

\* the sequences that list every element of the set S once
Orderings(S) ==
    {o \in [1..Cardinality(S) -> S] : \A i, j \in 1..Cardinality(S) : i # j => o[i] # o[j]}

\* ConfigParser::get_sections_by_type: the sections whose header starts with the
\* type, in the iteration order of the unordered_map, which is any order
get_sections_by_type(sections, type) ==
    LET idx == {i \in 1..Len(sections) : sections[i].type = type}
    IN {[k \in 1..Cardinality(idx) |-> sections[o[k]]] : o \in Orderings(idx)}

NoError == <<>>

RECURSIVE CreatePolaritons(_, _, _)
\* Phase 1 of load_from_ini
CreatePolaritons(st, secs, i) ==
    IF i > Len(secs) THEN st
    ELSE LET s == secs[i]
             id == Len(st.P) + 1
             pol == [PolaritonMode(s.gamma, s.U) EXCEPT
                        !.value = <<s.initial_real, s.initial_imag>>]
         IN CreatePolaritons([st EXCEPT !.P = Append(st.P, pol),
                                        !.polariton_map = (s.name :> id) @@ st.polariton_map],
                             secs, i + 1)

RECURSIVE CreatePhonons(_, _, _)
\* Phase 2 of load_from_ini
CreatePhonons(st, secs, i) ==
    IF i > Len(secs) THEN st
    ELSE LET s == secs[i]
             id == Len(st.H) + 1
             ph == [PhononMode(s.omega, s.gamma) EXCEPT
                       !.position = s.initial_position, !.velocity = s.initial_velocity]
         IN CreatePhonons([st EXCEPT !.H = Append(st.H, ph),
                                     !.phonon_map = (s.name :> id) @@ st.phonon_map],
                          secs, i + 1)

RECURSIVE CreateReservoirs_SkipUnknown(_, _, _)
\* a Phase 3 that passes over a reservoir whose target it does not know
CreateReservoirs_SkipUnknown(st, secs, i) ==
    IF i > Len(secs) \/ st.error # NoError THEN st
    ELSE LET s == secs[i]
         IN IF s.target \notin DOMAIN st.polariton_map
            THEN CreateReservoirs_SkipUnknown(st, secs, i + 1)
            ELSE CreateReservoirs_SkipUnknown(
                     [st EXCEPT !.P = add_reservoir(st.P, st.polariton_map[s.target], s.coupling,
                                                    s.tau, s.power, Sqrt(s.alpha), s.n0)],
                     secs, i + 1)

RECURSIVE CreateReservoirs(_, _, _)
\* Phase 3 of load_from_ini
CreateReservoirs(st, secs, i) ==
    IF i > Len(secs) \/ st.error # NoError THEN st
    ELSE LET s == secs[i]
         IN IF s.target \notin DOMAIN st.polariton_map
            THEN [st EXCEPT !.error = <<"Reservoir target not found: ", s.target>>]
            ELSE CreateReservoirs(
                     [st EXCEPT !.P = add_reservoir(st.P, st.polariton_map[s.target], s.coupling,
                                                    s.tau, s.power, Sqrt(s.alpha), s.n0)],
                     secs, i + 1)

RECURSIVE CreateCouplings_NamesFrom(_, _, _)
\* a Phase 4 whose 'to' error carries the name of the 'from' oscillator
CreateCouplings_NamesFrom(st, secs, i) ==
    IF i > Len(secs) \/ st.error # NoError THEN st
    ELSE LET s == secs[i]
         IN IF s.from \notin DOMAIN st.polariton_map
            THEN [st EXCEPT !.error = <<"Coupling 'from' not found: ", s.from>>]
            ELSE IF s.to \notin DOMAIN st.polariton_map
            THEN [st EXCEPT !.error = <<"Coupling 'to' not found: ", s.from>>]
            ELSE IF s.phonon \notin DOMAIN st.phonon_map
            THEN [st EXCEPT !.error = <<"Coupling phonon not found: ", s.phonon>>]
            ELSE CreateCouplings_NamesFrom(
                     [st EXCEPT !.P = connect(st.P, st.polariton_map[s.from],
                                              st.polariton_map[s.to], st.phonon_map[s.phonon],
                                              s.J, s.g, s.delta, s.above)],
                     secs, i + 1)

RECURSIVE CreateCouplings_FirstMode(_, _, _)
\* a Phase 4 that takes the first mechanical mode created for every link
CreateCouplings_FirstMode(st, secs, i) ==
    IF i > Len(secs) \/ st.error # NoError THEN st
    ELSE LET s == secs[i]
         IN IF s.from \notin DOMAIN st.polariton_map
            THEN [st EXCEPT !.error = <<"Coupling 'from' not found: ", s.from>>]
            ELSE IF s.to \notin DOMAIN st.polariton_map
            THEN [st EXCEPT !.error = <<"Coupling 'to' not found: ", s.to>>]
            ELSE IF s.phonon \notin DOMAIN st.phonon_map
            THEN [st EXCEPT !.error = <<"Coupling phonon not found: ", s.phonon>>]
            ELSE CreateCouplings_FirstMode(
                     [st EXCEPT !.P = connect(st.P, st.polariton_map[s.from],
                                              st.polariton_map[s.to], 1,
                                              s.J, s.g, s.delta, s.above)],
                     secs, i + 1)

RECURSIVE CreateCouplings(_, _, _)
\* Phase 4 of load_from_ini
CreateCouplings(st, secs, i) ==
    IF i > Len(secs) \/ st.error # NoError THEN st
    ELSE LET s == secs[i]
         IN IF s.from \notin DOMAIN st.polariton_map
            THEN [st EXCEPT !.error = <<"Coupling 'from' not found: ", s.from>>]
            ELSE IF s.to \notin DOMAIN st.polariton_map
            THEN [st EXCEPT !.error = <<"Coupling 'to' not found: ", s.to>>]
            ELSE IF s.phonon \notin DOMAIN st.phonon_map
            THEN [st EXCEPT !.error = <<"Coupling phonon not found: ", s.phonon>>]
            ELSE CreateCouplings(
                     [st EXCEPT !.P = connect(st.P, st.polariton_map[s.from],
                                              st.polariton_map[s.to], st.phonon_map[s.phonon],
                                              s.J, s.g, s.delta, s.above)],
                     secs, i + 1)

RECURSIVE CreatePairings(_, _, _)
\* Phase 5 of load_from_ini; sites is the list of names the sites string holds
\* between its commas, everything after the first comma being the second name
CreatePairings(st, secs, i) ==
    IF i > Len(secs) \/ st.error # NoError THEN st
    ELSE LET s == secs[i]
         IN IF s.phonon \notin DOMAIN st.phonon_map
            THEN [st EXCEPT !.error = <<"Pairing phonon not found: ", s.phonon>>]
            ELSE IF Len(s.sites) < 2
            THEN [st EXCEPT !.error = <<"Pairing sites must be comma-separated", "">>]
            ELSE IF s.sites[1] \notin DOMAIN st.polariton_map
            THEN [st EXCEPT !.error = <<"Pairing site not found: ", s.sites[1]>>]
            ELSE IF s.sites[2] \notin DOMAIN st.polariton_map
            THEN [st EXCEPT !.error = <<"Pairing site not found: ", s.sites[2]>>]
            ELSE CreatePairings(
                     [st EXCEPT !.H = add_pairing(st.H, st.phonon_map[s.phonon],
                                                  <<st.polariton_map[s.sites[1]],
                                                    st.polariton_map[s.sites[2]]>>,
                                                  s.delta, s.g)],
                     secs, i + 1)

\* Phases 1 to 5 of load_from_ini on the cavity's lists P, H, the five section lists
\* being what get_sections_by_type returned
LoadEntities(P, H, pols, phs, ress, cps, prs) ==
    LET st0 == [P |-> P, H |-> H, polariton_map |-> EmptyMap, phonon_map |-> EmptyMap,
                error |-> NoError]
    IN CreatePairings(
           CreateCouplings(
               CreateReservoirs(CreatePhonons(CreatePolaritons(st0, pols, 1), phs, 1), ress, 1),
               cps, 1),
           prs, 1)

\* files that declare their entities after the sections that refer to them, with
\* two mechanical modes and two links out of one oscillator
Scattered ==
    {<<PairingSection("b1", "mode_2", <<"site_2", "site_1">>),
       CouplingSection("c1", "site_2", "site_1", "mode_2", FALSE),
       ReservoirSection("r1", "site_2", 6),
       PhononSection("mode"),
       PolaritonSection("site_1", 1, 0),
       CouplingSection("c2", "site_2", "site_1", "mode", TRUE),
       [PhononSection("mode_2") EXCEPT !.initial_position = 3],
       PolaritonSection("site_2", 2, 3)>>,
     <<CouplingSection("c1", "site_2", "site_1", "mode_2", FALSE),
       CouplingSection("c2", "site_1", "site_3", "mode", TRUE),
       PhononSection("mode"),
       [PhononSection("mode_2") EXCEPT !.initial_position = 3],
       PolaritonSection("site_2", 2, 3),
       PolaritonSection("site_1", 1, 0)>>}

\* the files the loader is tried on: sections in file order, and the start time
Files ==
    LET pols == {<<PolaritonSection("site_1", 1, 0)>>,
                 <<PolaritonSection("site_1", 1, 0), PolaritonSection("site_2", 2, 3)>>}
        phs == {<<>>, <<PhononSection("mode")>>}
        ress == {<<>>, <<ReservoirSection("r1", "site_2", 6)>>,
                 <<ReservoirSection("r1", "site_1", 6), ReservoirSection("r2", "site_2", 7)>>,
                 <<ReservoirSection("r1", "site_1", 6), ReservoirSection("r2", "site_1", 7)>>,
                 <<ReservoirSection("r1", "nowhere", 6)>>}
        cps == {<<>>, <<CouplingSection("c1", "site_1", "site_2", "mode", TRUE)>>,
                <<CouplingSection("c1", "site_1", "site_3", "mode", TRUE)>>,
                <<CouplingSection("c1", "site_1", "site_2", "mode", TRUE),
                  CouplingSection("c2", "site_2", "site_4", "mode", FALSE)>>,
                <<CouplingSection("c1", "site_5", "site_3", "mode", TRUE)>>}
        prs == {<<>>, <<PairingSection("b1", "mode", <<"site_1", "site_2">>)>>,
                <<PairingSection("b1", "mode", <<"site_1", "site_6">>)>>,
                <<PairingSection("b1", "mode", <<"site_6">>)>>}
    IN {[sections |-> a \o b \o c \o d \o e, time |-> t0] :
            a \in pols, b \in phs, c \in ress, d \in cps, e \in prs, t0 \in StartTimes}
       \cup {[sections |-> f, time |-> 0] : f \in Scattered}

\* CavityConfig::load_from_ini on a default-constructed Cavity
LoadFromIni ==
    /\ pc = "build" /\ call.op = "none"
    /\ \E file \in Files :
       \E pols \in get_sections_by_type(file.sections, "polariton"),
          phs \in get_sections_by_type(file.sections, "phonon"),
          ress \in get_sections_by_type(file.sections, "reservoir"),
          cps \in get_sections_by_type(file.sections, "coupling"),
          prs \in get_sections_by_type(file.sections, "pairing") :
        \E st \in {LoadEntities(polaritons, phonons, pols, phs, ress, cps, prs)} :
        LET N == CountDimension(st.P, st.H)
        IN /\ polaritons' = st.P
           /\ phonons' = st.H
           /\ IF st.error = NoError
              THEN /\ current_time' = file.time
                   /\ system_dimension' = N
                   /\ current_state' = PackState(st.P, st.H, SetSize(N))
                   /\ pc' = "ready"
              ELSE /\ pc' = "load_error"
                   /\ UNCHANGED <<current_time, system_dimension, current_state>>
           /\ call' = [NoCall EXCEPT !.op = "load_from_ini", !.x = st.error,
                                     !.file = file.sections]
           /\ drv' = [drv EXCEPT !.polariton_map = st.polariton_map,
                                 !.phonon_map = st.phonon_map]
    /\ UNCHANGED <<used_time_step, evaluating_rhs, dxdt, ref>>

Init ==
    /\ polaritons = <<>> /\ phonons = <<>>
    /\ current_state = <<>> /\ current_time = 0
    /\ used_time_step = InitialStep
    /\ system_dimension = 0 /\ evaluating_rhs = FALSE
    /\ pc = "build"
    /\ dxdt = <<>> /\ call = NoCall /\ ref = NoRef /\ drv = NoDriver

Next ==
    \/ NewPolariton \/ NewPhonon \/ SetValue \/ SetPhonon \/ AddReservoir
    \/ Construct \/ LoadFromIni \/ PackStateCall \/ UnpackStateCall

Spec == Init /\ [][Next]_vars

----------------------------------------------------------------------------
(* The steppers *)

\* a sum of the stepper's vector arithmetic, kept within the number range
Sat(a) == IF a > Limit THEN Limit ELSE IF a < -Limit THEN -Limit ELSE a

\* x + a * k, component by component
Axpy(x, a, k) == [c \in DOMAIN x |-> Sat(x[c] + a * k[c])]

\* the last line of a Runge-Kutta step: x advanced by the weighted stage derivatives
Combine(x, dt, k1, k2, k3, k4) ==
    [c \in DOMAIN x |-> Sat(x[c] + (dt * (k1[c] + 2 * k2[c] + 2 * k3[c] + k4[c])) \div 6)]

\* stages whose first derivative is taken from the entities as they are, without
\* unpacking x into them
Stages_TrustsEntities(P, H, n, x, t, dt) ==
    Bind([P |-> P, H |-> H, dxdt |-> Derivatives(P, H, n, t)], LAMBDA e1 :
    Bind(Evaluate(e1.P, e1.H, n, Axpy(x, dt \div 2, e1.dxdt), t + dt \div 2), LAMBDA e2 :
    Bind(Evaluate(e2.P, e2.H, n, Axpy(x, dt \div 2, e2.dxdt), t + dt \div 2), LAMBDA e3 :
    Bind(Evaluate(e3.P, e3.H, n, Axpy(x, dt, e3.dxdt), t + dt), LAMBDA e4 :
        [P |-> e4.P, H |-> e4.H,
         x |-> Combine(x, dt, e1.dxdt, e2.dxdt, e3.dxdt, e4.dxdt)]))))

\* the stages of one explicit Runge-Kutta step from (x, t) of size dt: each stage
\* calls operator() on a perturbed state, which unpacks it into the entities
Stages(P, H, n, x, t, dt) ==
    Bind(Evaluate(P, H, n, x, t), LAMBDA e1 :
    Bind(Evaluate(e1.P, e1.H, n, Axpy(x, dt \div 2, e1.dxdt), t + dt \div 2), LAMBDA e2 :
    Bind(Evaluate(e2.P, e2.H, n, Axpy(x, dt \div 2, e2.dxdt), t + dt \div 2), LAMBDA e3 :
    Bind(Evaluate(e3.P, e3.H, n, Axpy(x, dt, e3.dxdt), t + dt), LAMBDA e4 :
        [P |-> e4.P, H |-> e4.H,
         x |-> Combine(x, dt, e1.dxdt, e2.dxdt, e3.dxdt, e4.dxdt)]))))

\* rk4_stepper.do_step(std::ref(*this), current_state, current_time, dt): the state
\* is advanced in place, the time is passed by value
rk4_do_step(P, H, n, x, t, dt) ==
    Bind(Stages(P, H, n, x, t, dt), LAMBDA s : [P |-> s.P, H |-> s.H, x |-> s.x, t |-> t])

\* a try_step that, after a rejection, takes the halved step at once
try_step_Retries(P, H, n, x, t, dt, accept, grow) ==
    IF accept
    THEN Bind(Stages(P, H, n, x, t, dt), LAMBDA s :
             [P |-> s.P, H |-> s.H, x |-> s.x, t |-> t + dt,
              dt |-> IF grow THEN 2 * dt ELSE dt, ok |-> TRUE])
    ELSE Bind(Stages(P, H, n, x, t, dt \div 2), LAMBDA s :
             [P |-> s.P, H |-> s.H, x |-> s.x, t |-> t + dt \div 2, dt |-> dt \div 2,
              ok |-> FALSE])

\* a try_step that keeps the step size after a rejection
try_step_NoShrink(P, H, n, x, t, dt, accept, grow) ==
    Bind(Stages(P, H, n, x, t, dt), LAMBDA s :
        IF accept
        THEN [P |-> s.P, H |-> s.H, x |-> s.x, t |-> t + dt,
              dt |-> IF grow THEN 2 * dt ELSE dt, ok |-> TRUE]
        ELSE [P |-> s.P, H |-> s.H, x |-> x, t |-> t, dt |-> dt, ok |-> FALSE])

\* dopri5_stepper.try_step(std::ref(*this), current_state, current_time, used_time_step):
\* one attempt; x, t and dt are passed by reference.  The error control decides
\* accept; an accepted step advances x and t and may enlarge dt, a rejected one
\* leaves x and t alone and makes dt smaller.
try_step(P, H, n, x, t, dt, accept, grow) ==
    Bind(Stages(P, H, n, x, t, dt), LAMBDA s :
        IF accept
        THEN [P |-> s.P, H |-> s.H, x |-> s.x, t |-> t + dt,
              dt |-> IF grow THEN 2 * dt ELSE dt, ok |-> TRUE]
        ELSE [P |-> s.P, H |-> s.H, x |-> x, t |-> t, dt |-> dt \div 2, ok |-> FALSE])

\* the verdicts the error control can reach for a step of size dt
Verdicts(dt) == IF dt <= SafeStep THEN {TRUE} ELSE BOOLEAN

\* whether the controller may enlarge an accepted step
Growths(dt) == IF 2 * dt <= InitialStep THEN BOOLEAN ELSE {FALSE}

\* a do_step that forgets the final unpack_state
DoStepEffect_NoUnpack(dt) ==
    \E r \in {rk4_do_step(polaritons, phonons, system_dimension, current_state,
                            current_time, dt)} :
       /\ current_state' = r.x
       /\ current_time' = r.t
       /\ polaritons' = r.P
       /\ phonons' = r.H
       /\ used_time_step' = dt

\* a do_step that leaves the remembered step size alone
DoStepEffect_KeepStep(dt) ==
    \E r \in {rk4_do_step(polaritons, phonons, system_dimension, current_state,
                            current_time, dt)} :
       /\ current_state' = r.x
       /\ current_time' = r.t
       /\ polaritons' = UnpackStateP(r.P, r.H, r.x)
       /\ phonons' = UnpackStateH(r.P, r.H, r.x)
       /\ used_time_step' = used_time_step

\* the body of Cavity::do_step(dt)
DoStepEffect(dt) ==
    \E r \in {rk4_do_step(polaritons, phonons, system_dimension, current_state,
                            current_time, dt)} :
       /\ current_state' = r.x
       /\ current_time' = r.t
       /\ polaritons' = UnpackStateP(r.P, r.H, r.x)
       /\ phonons' = UnpackStateH(r.P, r.H, r.x)
       /\ used_time_step' = dt

\* the body of Cavity::adaptive_step(): the verdict of try_step is not looked at
AdaptiveStepEffect(accept, grow) ==
    \E r \in {try_step(polaritons, phonons, system_dimension, current_state,
                         current_time, used_time_step, accept, grow)} :
       /\ current_state' = r.x
       /\ current_time' = r.t
       /\ used_time_step' = r.dt
       /\ polaritons' = UnpackStateP(r.P, r.H, r.x)
       /\ phonons' = UnpackStateH(r.P, r.H, r.x)

\* Cavity::do_step(dt) called by the program
DoStep ==
    /\ pc = "ready" /\ call.n < MaxOps
    /\ \E dt \in StepSizes :
           /\ DoStepEffect(dt)
           /\ call' = [Entered("do_step") EXCEPT !.dt = dt]
    /\ UNCHANGED <<system_dimension, evaluating_rhs, pc, ghost>>

\* Cavity::adaptive_step() called by the program
AdaptiveStep ==
    /\ pc = "ready" /\ call.n < MaxOps
    /\ current_time + used_time_step <= MaxTime
    /\ \E accept \in Verdicts(used_time_step), grow \in Growths(used_time_step) :
           /\ accept \/ ~grow
           /\ AdaptiveStepEffect(accept, grow)
           /\ call' = [Entered("adaptive_step") EXCEPT !.dt = used_time_step, !.ok = accept]
    /\ UNCHANGED <<system_dimension, evaluating_rhs, pc, ghost>>

\* the vectors operator() is called on by the program
Probes == {[c \in 1..system_dimension |-> c % 3], current_state}

\* Cavity::operator()(x, dxdt, t) called by the program; one call is kept for
\* comparison with the later ones
EvaluateCall ==
    /\ pc = "ready" /\ call.n < MaxOps
    /\ \E x \in Probes, t \in EvalTimes :
        \E e \in {Evaluate(polaritons, phonons, system_dimension, x, t)} :
           /\ polaritons' = e.P
           /\ phonons' = e.H
           /\ dxdt' = e.dxdt
           /\ call' = [Entered("operator()") EXCEPT !.x = x, !.t = t]
           /\ \/ ref' = ref
              \/ /\ ~ref.set
                 /\ ref' = [x |-> x, t |-> t, out |-> e.dxdt, set |-> TRUE,
                            P0 |-> polaritons, n |-> call.n + 1]
    /\ evaluating_rhs' = FALSE
    /\ UNCHANGED <<current_state, current_time, used_time_step, system_dimension, pc, drv>>

----------------------------------------------------------------------------
(* Stepping an assembled system *)

\* the two-site network of the driver scripts: two oscillators linked both ways
\* through one mechanical mode, one pairing, site_1 driven, reservoirs as asked
TwoSites(res1, res2) ==
    LET sites == <<[PolaritonMode(1, 1) EXCEPT !.value = <<1, 0>>],
                   [PolaritonMode(1, 1) EXCEPT !.value = <<2, 3>>]>>
        driven == set_driving(sites, 1, <<1, 0>>, 1)
        r1 == IF res1 THEN add_reservoir(driven, 1, 1, 1, 2, 1, 6) ELSE driven
        r2 == IF res2 THEN add_reservoir(r1, 2, 1, 1, 2, 1, 7) ELSE r1
        linked == connect(connect(r2, 1, 2, 1, 0, 1, 0, TRUE), 2, 1, 1, 0, 1, 0, FALSE)
        mode == [PhononMode(1, 1) EXCEPT !.position = 4, !.velocity = 5]
    IN [P |-> linked, H |-> add_pairing(<<mode>>, 1, <<1, 2>>, 0, 1)]

\* a single damped oscillator
OneSite == [P |-> <<[PolaritonMode(1, 0) EXCEPT !.value = <<2, 3>>]>>, H |-> <<>>]

Systems == {OneSite, TwoSites(TRUE, TRUE), TwoSites(FALSE, TRUE)}

\* the state Cavity(sites, phonons, t0) leaves for one of the systems
InitStep ==
    /\ \E sys \in Systems :
           /\ polaritons = sys.P
           /\ phonons = sys.H
           /\ system_dimension = CountDimension(sys.P, sys.H)
           /\ current_state = PackState(sys.P, sys.H, SetSize(CountDimension(sys.P, sys.H)))
    /\ current_time \in StartTimes
    /\ used_time_step = InitialStep
    /\ evaluating_rhs = FALSE
    /\ pc = "ready"
    /\ dxdt = <<>> /\ call = [NoCall EXCEPT !.op = "Cavity"] /\ ref = NoRef /\ drv = NoDriver

NextStep ==
    \/ DoStep \/ AdaptiveStep \/ EvaluateCall
    \/ SetValue \/ SetPhonon \/ PackStateCall \/ UnpackStateCall

SpecStep == InitStep /\ [][NextStep]_vars

----------------------------------------------------------------------------
(* build_from_file.cpp: load, transient loop, stationary loop, output *)

transient == 1
stationary == 2

\* the values of power = linspace(0, 15, steps)[job_index] tried
Powers == {0, 2}

\* a main that reports the failed load and goes on into the transient loop
LoadFailed_Continues ==
    /\ pc = "load_error"
    /\ pc' = "transient"
    /\ UNCHANGED <<polaritons, phonons, cavity, dxdt, ref, call, drv>>

\* main, lines 15-21: a failed load is reported and main returns 1
LoadFailed ==
    /\ pc = "load_error"
    /\ pc' = "exit"
    /\ drv' = [drv EXCEPT !.status = 1]
    /\ UNCHANGED <<polaritons, phonons, cavity, dxdt, ref, call>>

\* main, lines 25-31 and 84, as the ways it can go: get_polariton_id throws for a
\* name the file did not define and nothing catches it; get_reservoir() is null for
\* a site_2 without reservoir and set_power writes through it, which either ends
\* the process or goes unnoticed; otherwise the parameters are set and the
\* entities packed
SetUpOutcomes(power) ==
    IF ~({"site_1", "site_2"} \subseteq DOMAIN drv.polariton_map)
    THEN {[pc |-> "terminated", status |-> 134, P |-> polaritons, x |-> current_state]}
    ELSE LET site1_id == drv.polariton_map["site_1"]
             site2_id == drv.polariton_map["site_2"]
             driven == set_driving(polaritons, site1_id, <<power \div 2, 0>>, 0)
             pumped == [driven EXCEPT ![site2_id].reservoir_owned[1].power = power \div 2]
         IN IF HasReservoir(driven[site2_id])
            THEN {[pc |-> "transient", status |-> -1, P |-> pumped,
                   x |-> PackState(pumped, phonons, current_state)]}
            ELSE {[pc |-> "crashed", status |-> 139, P |-> driven, x |-> current_state],
                  [pc |-> "transient", status |-> -1, P |-> driven,
                   x |-> PackState(driven, phonons, current_state)]}

SetUp ==
    /\ pc = "ready" /\ call.op = "load_from_ini"
    /\ \E power \in Powers : \E o \in SetUpOutcomes(power) :
           /\ pc' = o.pc
           /\ polaritons' = o.P
           /\ current_state' = o.x
           /\ drv' = [drv EXCEPT !.status = o.status]
    /\ call' = [NoCall EXCEPT !.op = "main"]
    /\ UNCHANGED <<phonons, current_time, used_time_step, system_dimension,
                   evaluating_rhs, dxdt, ref>>

\* one model.adaptive_step() of a loop of main; main has nothing to look at but the
\* cavity, the verdict is kept here for the properties
Attempt(accept, grow) ==
    /\ AdaptiveStepEffect(accept, grow)
    /\ call' = [NoCall EXCEPT !.op = "adaptive_step", !.prev = call.op,
                              !.time0 = current_time, !.step0 = used_time_step,
                              !.state0 = current_state, !.dt = used_time_step,
                              !.ok = accept]

\* the rejections in a row after one more attempt, 2 standing for two or more
Streak(accept) ==
    LET base == IF call.op = "adaptive_step" /\ ~call.ok THEN drv.streak ELSE 0
    IN IF accept THEN base ELSE IF base < 2 THEN base + 1 ELSE 2

\* a transient loop that repeats an iteration whose attempt was rejected
TransientStep_RetriesRejected ==
    /\ pc = "transient" /\ drv.i < transient
    /\ \E accept \in Verdicts(used_time_step), grow \in Growths(used_time_step) :
           /\ accept \/ ~grow
           /\ Attempt(accept, grow)
           /\ drv' = [drv EXCEPT !.i = IF accept THEN @ + 1 ELSE @, !.attempts = @ + 1,
                                 !.rejected = IF accept THEN @ ELSE @ + 1,
                                 !.streak = Streak(accept)]
    /\ UNCHANGED <<system_dimension, evaluating_rhs, pc, dxdt, ref>>

\* main, lines 105-107: one iteration of the transient loop
TransientStep ==
    /\ pc = "transient" /\ drv.i < transient
    /\ \E accept \in Verdicts(used_time_step), grow \in Growths(used_time_step) :
           /\ accept \/ ~grow
           /\ Attempt(accept, grow)
           /\ drv' = [drv EXCEPT !.i = @ + 1, !.attempts = @ + 1,
                                 !.rejected = IF accept THEN @ ELSE @ + 1,
                                 !.streak = Streak(accept)]
    /\ UNCHANGED <<system_dimension, evaluating_rhs, pc, dxdt, ref>>

\* main, lines 109-111: the transient loop is over, dt = model.get_time_step()
StartStationary ==
    /\ pc = "transient" /\ drv.i = transient
    /\ pc' = "stationary"
    /\ drv' = [drv EXCEPT !.i = 0, !.dt = used_time_step]
    /\ UNCHANGED <<polaritons, phonons, cavity, dxdt, ref, call>>

\* main, lines 112-120: one iteration of the stationary loop.  aux(6) is read
\* whatever the dimension: on a vector of fewer than 7 components the element
\* access either throws (bounds check compiled in) or reads past the end unnoticed
StationaryStep ==
    /\ pc = "stationary" /\ drv.i < stationary
    /\ \E thrown \in (IF Len(current_state) >= 7 THEN {FALSE} ELSE BOOLEAN) :
          IF thrown
          THEN /\ pc' = "terminated"
               /\ drv' = [drv EXCEPT !.status = 134]
               /\ UNCHANGED <<polaritons, phonons, current_state, current_time,
                              used_time_step, call>>
          ELSE /\ \E accept \in Verdicts(used_time_step), grow \in Growths(used_time_step) :
                      /\ accept \/ ~grow
                      /\ Attempt(accept, grow)
                      /\ drv' = [drv EXCEPT !.i = @ + 1, !.attempts = @ + 1,
                                            !.samples = @ + 1,
                                            !.rejected = IF accept THEN @ ELSE @ + 1,
                                            !.streak = Streak(accept)]
               /\ pc' = pc
    /\ UNCHANGED <<system_dimension, evaluating_rhs, dxdt, ref>>

\* main, lines 122-130: the averages are written and main returns 0
WriteOutput ==
    /\ pc = "stationary" /\ drv.i = stationary
    /\ pc' = "exit"
    /\ drv' = [drv EXCEPT !.written = TRUE, !.status = 0]
    /\ UNCHANGED <<polaritons, phonons, cavity, dxdt, ref, call>>

NextDriver ==
    \/ LoadFromIni \/ LoadFailed \/ SetUp
    \/ TransientStep \/ StartStationary \/ StationaryStep \/ WriteOutput

SpecDriver == Init /\ [][NextDriver]_vars

\* a loop of adaptive_step calls on an assembled system, as the transient loop of
\* main; of its counter i only the parity is kept
AdaptiveLoop ==
    /\ pc = "ready"
    /\ current_time + used_time_step <= MaxTime
    /\ \E accept \in Verdicts(used_time_step), grow \in Growths(used_time_step) :
           /\ accept \/ ~grow
           /\ Attempt(accept, grow)
           /\ drv' = [drv EXCEPT !.i = 1 - @, !.streak = Streak(accept)]
    /\ UNCHANGED <<system_dimension, evaluating_rhs, pc, dxdt, ref>>

\* the loop keeps running: an iteration that can be made is made
SpecLoop == InitStep /\ [][AdaptiveLoop]_vars /\ WF_vars(AdaptiveLoop)

----------------------------------------------------------------------------
(* Properties of the assembly and of the state-vector layout *)

\* the oscillators of P that own a reservoir
Owners(P) == {k \in 1..Len(P) : HasReservoir(P[k])}

\* the number of reservoir-owning oscillators created before oscillator k
OwnersBefore(P, k) == Cardinality({j \in Owners(P) : j < k})

\* the last operation built the System Assembly
JustBuilt == pc = "ready" /\ call.op \in {"Cavity", "load_from_ini"}

\* C1: right after the System Assembly is built, by the constructor or by a
\* successful load_from_ini, from p oscillators, m mechanical modes and r
\* reservoir-owning oscillators, the state vector has exactly 2p + 2m + r components.
C1_DimensionAfterBuild ==
    JustBuilt =>
        /\ Len(current_state) = 2 * Len(polaritons) + 2 * Len(phonons)
                                + Cardinality(Owners(polaritons))
        /\ system_dimension = Len(current_state)

\* a loaded assembly of two oscillators, one mode and one reservoir: 7 components
C1_Witness ==
    /\ pc = "ready" /\ call.op = "load_from_ini"
    /\ Len(polaritons) = 2 /\ Len(phonons) = 1 /\ Cardinality(Owners(polaritons)) = 1
    /\ Len(current_state) = 7

\* vector v holds the entities P, H in the fixed layout (component c is v[c + 1])
InLayout(P, H, v) ==
    LET p == Len(P)
        m == Len(H)
    IN /\ \A k \in 0..(p - 1) :
              /\ v[2 * k + 1] = Re(P[k + 1].value)
              /\ v[2 * k + 2] = Im(P[k + 1].value)
       /\ \A j \in 0..(m - 1) :
              /\ v[2 * p + 2 * j + 1] = H[j + 1].position
              /\ v[2 * p + 2 * j + 2] = H[j + 1].velocity
       /\ \A k \in Owners(P) :
              v[2 * p + 2 * m + OwnersBefore(P, k) + 1] = P[k].reservoir_owned[1].value

\* C2: pack_state and unpack_state use one layout: oscillator k at components 2k and
\* 2k+1, mode j at 2p+2j and 2p+2j+1, the reservoir of the i-th reservoir-owning
\* oscillator (in creation order, whatever the order of attachment) at 2p+2m+i.
C2_OneLayout ==
    /\ (pc = "ready" /\ call.op \in {"pack_state", "Cavity", "load_from_ini"})
           => InLayout(polaritons, phonons, current_state)
    /\ call.op = "unpack_state" => InLayout(polaritons, phonons, call.x)

\* unpack_state has run on a vector of two oscillators, a mode and two reservoirs
\* holding different values, the entities having held something else before
C2_Witness ==
    /\ call.op = "unpack_state"
    /\ Len(polaritons) = 2 /\ Len(phonons) = 1 /\ Owners(polaritons) = {1, 2}
    /\ polaritons[1].reservoir_owned[1].value # polaritons[2].reservoir_owned[1].value
    /\ polaritons[1].value # polaritons[2].value
    /\ call.P0 # polaritons

\* C3: pack_state() followed by unpack_state(get_state()) leaves every entity field
\* (amplitudes, positions, velocities, reservoir values) as it was.
C3_RoundTrip ==
    (call.op = "unpack_state" /\ call.prev = "pack_state")
        => (polaritons = call.P0 /\ phonons = call.H0)

\* the round trip has run on entities changed out of band since the vector was
\* last written, with a mode and a reservoir present
C3_Witness ==
    /\ call.op = "unpack_state" /\ call.prev = "pack_state"
    /\ Len(polaritons) = 2 /\ Len(phonons) = 1 /\ Owners(polaritons) # {}
    /\ call.pprev = "set_value"

----------------------------------------------------------------------------
(* Properties of the vector field and of the steppers *)

\* C4: two calls of operator() with the same (state, t) produce the same derivative
\* vector, whatever the entity fields held before each call and whatever was
\* evaluated or stepped in between.
C4_SameInputsSameOutput ==
    (call.op = "operator()" /\ ref.set /\ ref.x = call.x /\ ref.t = call.t)
        => dxdt = ref.out

\* a later call repeats the inputs of a remembered one on the two-site network, the
\* entities holding other values on entry than they did then, and the output is not
\* the zero vector
C4_Witness ==
    /\ call.op = "operator()" /\ ref.set /\ ref.n < call.n
    /\ ref.x = call.x /\ ref.t = call.t
    /\ Len(polaritons) = 2 /\ Len(phonons) = 1
    /\ call.P0 # ref.P0
    /\ \E c \in DOMAIN dxdt : dxdt[c] # 0

\* C5: do_step(dt) advances the stored time by exactly dt.
C5_DoStepAdvancesTime ==
    call.op = "do_step" => current_time = call.time0 + call.dt

\* C6: after every do_step and every adaptive_step, accepted or rejected, every
\* entity field equals the corresponding component of get_state().
C6_EntitiesHoldState ==
    call.op \in {"do_step", "adaptive_step"}
        => InLayout(polaritons, phonons, current_state)

\* a rejected adaptive step has returned on the two-site network with both
\* reservoirs, the entities having been changed out of band before the call
C6_Witness ==
    /\ call.op = "adaptive_step" /\ ~call.ok
    /\ Len(phonons) = 1 /\ Owners(polaritons) = {1, 2}
    /\ call.prev = "set_value"
    /\ call.P0 # polaritons

\* C7 as stated: do_step(dt) leaves the remembered step size as it was.
C7_DoStepKeepsStepSize ==
    call.op = "do_step" => used_time_step = call.step0

\* C7 as the code has it: do_step(dt) sets the remembered step size to dt, so that
\* get_time_step() returns dt after it.
C7_DoStepRecordsStepSize ==
    call.op = "do_step" => used_time_step = call.dt

\* a do_step with a dt other than the remembered step size has returned
C7_Witness ==
    call.op = "do_step" /\ call.dt # call.step0 /\ used_time_step = call.dt

\* C8: every adaptive_step call returns with the stored time strictly advanced and
\* the state vector updated to an accepted step.
C8_AdaptiveStepAlwaysAdvances ==
    call.op = "adaptive_step" => (current_time > call.time0 /\ call.ok)

\* C9: with a step size below which every attempt is accepted, a loop of
\* adaptive_step calls raises no error and every rejected attempt is followed,
\* after finitely many more rejections, by an attempt that advances the stored time.
C9_RejectionsEndInProgress ==
    /\ [](pc = "ready")
    /\ (call.op = "adaptive_step" /\ ~call.ok)
           ~> (call.op = "adaptive_step" /\ call.ok /\ current_time > call.time0)

\* an attempt has been accepted and has advanced the time after two or more
\* rejections in a row
C9_Witness ==
    /\ call.op = "adaptive_step" /\ call.ok /\ drv.streak = 2
    /\ current_time = call.time0 + call.dt /\ call.dt < InitialStep

\* C10: if every attempt of the run was rejected, the run does not end normally
\* and writes no averaged output.
C10_NoOutputWithoutAcceptedStep ==
    (drv.attempts = transient + stationary /\ drv.rejected = drv.attempts)
        => ~(drv.written \/ drv.status = 0)

----------------------------------------------------------------------------
(* Properties of the loader *)

\* the sections of a file that are of one type
SectionsOf(file, type) == {file[i] : i \in {j \in 1..Len(file) : file[j].type = type}}

\* the names a file gives to the oscillators and to the mechanical modes it creates
Declared(file) == {s.name : s \in SectionsOf(file, "polariton")}
DeclaredModes(file) == {s.name : s \in SectionsOf(file, "phonon")}

\* the coupling declarations of a file whose `to` names no created oscillator
DanglingTo(file) == {s \in SectionsOf(file, "coupling") : s.to \notin Declared(file)}

\* load_from_ini has returned or thrown, nothing has run since
LoadReturned == call.op = "load_from_ini"

\* no check that comes before a coupling's `to` check can fail on the file
ToCheckedFirst(file) ==
    /\ \A r \in SectionsOf(file, "reservoir") : r.target \in Declared(file)
    /\ \A c \in SectionsOf(file, "coupling") :
           c.from \in Declared(file) /\ c.phonon \in DeclaredModes(file)

\* C11 as stated: for every configuration that holds a coupling declaration whose
\* `to` names no created oscillator, load_from_ini fails with the `to` error
\* naming exactly that identifier.
C11_ToErrorNamesIdentifier ==
    LoadReturned =>
        \A s \in DanglingTo(call.file) : call.x = <<"Coupling 'to' not found: ", s.to>>

\* C11 as the code has it: such a configuration always makes load_from_ini fail; a
\* `to` error names the `to` identifier of a declaration that names no created
\* oscillator; and the error is a `to` error whenever no earlier check (reservoir
\* targets, `from` and phonon names of the couplings) can fail.
C11_DanglingToFailsLoad ==
    (LoadReturned /\ DanglingTo(call.file) # {}) =>
        /\ pc = "load_error" /\ call.x # NoError
        /\ call.x[1] = "Coupling 'to' not found: "
               => \E s \in DanglingTo(call.file) : call.x[2] = s.to
        /\ ToCheckedFirst(call.file) => call.x[1] = "Coupling 'to' not found: "

\* a file with a good coupling and one whose `to` is unknown has failed on the latter
C11_Witness ==
    /\ LoadReturned /\ call.x = <<"Coupling 'to' not found: ", "site_4">>
    /\ Cardinality(SectionsOf(call.file, "coupling")) = 2
    /\ Len(polaritons) = 2

\* the error of a failed load reports a name that resolves to no entity
UnresolvedReference ==
    /\ call.x # NoError
    /\ call.x[1] \in {"Reservoir target not found: ", "Coupling 'from' not found: ",
                       "Coupling 'to' not found: ", "Coupling phonon not found: ",
                       "Pairing phonon not found: ", "Pairing site not found: "}

\* C12: when load_from_ini fails on an unresolved reference, the Cavity passed to it
\* (here a default-constructed one) is left as it was: no oscillators or modes
\* added, dimension and state vector unchanged.
C12_FailedLoadLeavesCavityAlone ==
    (LoadReturned /\ UnresolvedReference) =>
        /\ polaritons = <<>> /\ phonons = <<>>
        /\ system_dimension = 0 /\ current_state = <<>>

\* the names a file refers to that resolve to nothing, by kind of declaration
UnknownTargets(file) ==
    {r.target : r \in SectionsOf(file, "reservoir")} \ Declared(file)
UnknownFroms(file) == {c.from : c \in SectionsOf(file, "coupling")} \ Declared(file)
UnknownTos(file) == {c.to : c \in SectionsOf(file, "coupling")} \ Declared(file)
UnknownCouplingModes(file) ==
    {c.phonon : c \in SectionsOf(file, "coupling")} \ DeclaredModes(file)
UnknownPairingModes(file) ==
    {b.phonon : b \in SectionsOf(file, "pairing")} \ DeclaredModes(file)
UnknownSites(file) ==
    UNION {{b.sites[k] : k \in 1..Len(b.sites)} : b \in SectionsOf(file, "pairing")}
        \ Declared(file)

\* every sites entry of the file holds a comma
SitesWellFormed(file) == \A b \in SectionsOf(file, "pairing") : Len(b.sites) >= 2

\* the error names a reference of its kind that the file leaves unresolved
ErrorNamesUnresolved(file, error) ==
    CASE error[1] = "Reservoir target not found: " -> error[2] \in UnknownTargets(file)
      [] error[1] = "Coupling 'from' not found: " -> error[2] \in UnknownFroms(file)
      [] error[1] = "Coupling 'to' not found: " -> error[2] \in UnknownTos(file)
      [] error[1] = "Coupling phonon not found: " -> error[2] \in UnknownCouplingModes(file)
      [] error[1] = "Pairing phonon not found: " -> error[2] \in UnknownPairingModes(file)
      [] error[1] = "Pairing site not found: " -> error[2] \in UnknownSites(file)
      [] OTHER -> FALSE

----------------------------------------------------------------------------
(* Properties of the driver on a failed load *)

\* the load of this run has failed
LoadHasFailed == call.op = "load_from_ini" /\ call.x # NoError

\* C14: when load_from_ini fails the driver goes from the failed load straight to
\* its exit with a non-zero status: no adaptive_step or do_step is executed and no
\* output line is written.
C14_LoadErrorAbortsRun ==
    LoadHasFailed =>
        /\ pc \in {"load_error", "exit"}
        /\ drv.attempts = 0 /\ drv.samples = 0 /\ drv.i = 0
        /\ ~drv.written
        /\ pc = "exit" => drv.status = 1
        /\ pc = "load_error" => drv.status = -1

\* the driver has exited with status 1 on a file with a dangling reservoir target
C14_Witness ==
    /\ LoadHasFailed /\ pc = "exit" /\ drv.status = 1
    /\ call.x = <<"Reservoir target not found: ", "nowhere">>
    /\ ~drv.written /\ drv.attempts = 0

----------------------------------------------------------------------------
(* cavity_config.h: ConfigParser::get_double and parse_expression.  A text is a
   sequence of symbols: the words uniform, Uniform, normal and Normal, stood for
   by one symbol each, the digit 1, a letter x that starts no number, the
   punctuation of a call, and a blank *)

MaxLen == 5

Symbols == {"(", ",", ")", "1", "x", " "}
Heads == {<<>>, <<"uniform">>, <<"Uniform">>, <<"normal">>, <<"Normal">>}
Whitespace == {" "}

\* the result of an evaluation: a number, or what was thrown and its what(), a
\* text whose fixed words are one symbol each
Value(v) == [kind |-> "value", v |-> v, msg |-> <<>>]
Thrown(kind, msg) == [kind |-> kind, v |-> 0, msg |-> msg]

\* s.substr(pos, count), positions counted from 0; the count is a size_t, so a
\* negative difference wraps to a huge count and the rest of the string is taken
substr(s, pos, count) ==
    IF count < 0 \/ pos + count > Len(s) THEN SubSeq(s, pos + 1, Len(s))
    ELSE SubSeq(s, pos + 1, pos + count)

\* s.find(c) has found c; and the position, counted from 0, of the first c
Found(s, c) == \E k \in 1..Len(s) : s[k] = c
find(s, c) == (CHOOSE k \in 1..Len(s) : s[k] = c /\ \A j \in 1..(k - 1) : s[j] # c) - 1

\* ConfigParser::trim
trim(s) ==
    LET inked == {k \in 1..Len(s) : s[k] \notin Whitespace}
    IN IF inked = {} THEN <<>>
       ELSE SubSeq(s, CHOOSE k \in inked : \A j \in inked : k <= j,
                      CHOOSE k \in inked : \A j \in inked : k >= j)

RECURSIVE Digits(_, _, _)
\* the number written by the digits of s from position k on, up to the first
\* symbol that is no digit
Digits(s, k, acc) ==
    IF k > Len(s) \/ s[k] # "1" THEN acc ELSE Digits(s, k + 1, 10 * acc + 1)

RECURSIVE SkipSpace(_)
SkipSpace(s) == IF s # <<>> /\ s[1] \in Whitespace THEN SkipSpace(Tail(s)) ELSE s

\* std::stod: leading blanks are skipped, the longest numeric prefix is converted
\* and whatever follows it is ignored; with no numeric prefix it throws
\* std::invalid_argument, whose what() is "stod"
stod(s) ==
    LET body == SkipSpace(s)
    IN IF body = <<>> \/ body[1] # "1" THEN Thrown("invalid_argument", <<"stod">>)
       ELSE Value(Digits(body, 1, 0))

\* dist(rng) of std::uniform_real_distribution<double>(a, b): a draw of [a, b);
\* with b < a the precondition of the distribution is broken and the build either
\* aborts on its assertion or computes a number between them
Uniform(a, b) ==
    IF a < b THEN {Value(a), Value(b - 1)}
    ELSE IF a = b THEN {Value(a)}
    ELSE {Value(a), Thrown("abort", <<>>)}

\* dist(rng) of std::normal_distribution<double>(mean, stddev), stddev > 0
Normal(mean, stddev) == {Value(mean - stddev), Value(mean), Value(mean + stddev)}

\* the two arguments of a call, converted in turn outside any try block, then the draw
Call(trimmed, uniform) ==
    LET start == find(trimmed, "(")
        comma == find(trimmed, ",")
        end == find(trimmed, ")")
        a == stod(substr(trimmed, start + 1, comma - start - 1))
        b == stod(substr(trimmed, comma + 1, end - comma - 1))
    IN IF a.kind # "value" THEN {a}
       ELSE IF b.kind # "value" THEN {b}
       ELSE IF uniform THEN Uniform(a.v, b.v) ELSE Normal(a.v, b.v)

\* the three delimiters of a call are all somewhere in the text
HasCallShape(trimmed) == Found(trimmed, "(") /\ Found(trimmed, ",") /\ Found(trimmed, ")")

\* ConfigParser::parse_expression, as the set of ways the evaluation can end
parse_expression(expr) ==
    LET trimmed == trim(expr)
        literal == stod(trimmed)
    IN IF literal.kind = "value" THEN {literal}
       ELSE IF trimmed # <<>> /\ trimmed[1] \in {"uniform", "Uniform"} /\ HasCallShape(trimmed)
       THEN Call(trimmed, TRUE)
       ELSE IF trimmed # <<>> /\ trimmed[1] \in {"normal", "Normal"} /\ HasCallShape(trimmed)
       THEN Call(trimmed, FALSE)
       ELSE {Thrown("runtime_error", <<"Cannot parse expression: ">> \o expr)}

\* ConfigParser::get_double on a key whose stored value is val
get_double(val, default_val) ==
    IF val = <<>> THEN {Value(default_val)} ELSE parse_expression(val)

\* the values load() can have stored for a key: trimmed texts, here a word or
\* none followed by up to n symbols
StoredValues(n) ==
    {v \in {h \o b : h \in Heads, b \in UNION {[1..k -> Symbols] : k \in 0..n}} :
        trim(v) = v}

\* one get_double of load_from_ini, on the value the file gives the key
GetDouble ==
    /\ call.op = "none"
    /\ \E r \in get_double(call.x, 0) :
           call' = [call EXCEPT !.op = "get_double", !.n = r]
    /\ UNCHANGED <<polaritons, phonons, cavity, evaluating_rhs, pc, dxdt, ref, drv>>

InitParse ==
    /\ polaritons = <<>> /\ phonons = <<>>
    /\ current_state = <<>> /\ current_time = 0
    /\ used_time_step = InitialStep
    /\ system_dimension = 0 /\ evaluating_rhs = FALSE
    /\ pc = "build"
    /\ dxdt = <<>> /\ ref = NoRef /\ drv = NoDriver
    /\ \E v \in StoredValues(MaxLen) : call = [NoCall EXCEPT !.x = v]

NextParse == GetDouble

SpecParse == InitParse /\ [][NextParse]_vars

\* text is a literal number: digits and nothing else
IsNumber(text) == text # <<>> /\ \A k \in 1..Len(text) : text[k] = "1"

\* text is a well-formed uniform(a,b) or normal(mean,std): the word, then two
\* numbers in parentheses with a comma between them and nothing after
IsDrawCall(text) ==
    /\ Len(text) >= 6
    /\ text[1] \in {"uniform", "Uniform", "normal", "Normal"}
    /\ text[2] = "(" /\ text[Len(text)] = ")"
    /\ \E c \in 3..(Len(text) - 1) :
           /\ text[c] = ","
           /\ IsNumber(trim(SubSeq(text, 3, c - 1)))
           /\ IsNumber(trim(SubSeq(text, c + 1, Len(text) - 1)))

\* the message holds the text that was evaluated
QuotesFrom(msg, text) ==
    \E k \in 1..Len(msg) :
        k + Len(text) - 1 <= Len(msg) /\ SubSeq(msg, k, k + Len(text) - 1) = text

\* C15: evaluating a parameter value that is neither a literal number nor a
\* well-formed uniform(a,b) or normal(mean,std) expression (a call whose arguments
\* are not numbers included) fails with a parse error whose message contains the
\* offending text; a literal number or a well-formed expression never fails.
C15_ParseErrorNamesText ==
    (call.op = "get_double" /\ call.x # <<>>) =>
        IF IsNumber(call.x) \/ IsDrawCall(call.x)
        THEN call.n.kind = "value"
        ELSE call.n.kind = "runtime_error" /\ QuotesFrom(call.n.msg, call.x)

----------------------------------------------------------------------------
(* polariton.h: Cavity::get_polariton and Cavity::get_phonon *)

\* what a getter hands back: the entity, or the std::range_error thrown
Returned(entity) == [thrown |-> "none", what |-> "", entity |-> entity]
RangeError(what) == [thrown |-> "range_error", what |-> what, entity |-> <<>>]

\* a getter that counts the oscillators from the last one created
get_polariton_FromEnd(P, index) ==
    IF index >= Len(P) THEN RangeError("Polariton index out of bounds")
    ELSE Returned(P[Len(P) - index])

\* Cavity::get_polariton(index), index a size_t counted from 0
get_polariton(P, index) ==
    IF index >= Len(P) THEN RangeError("Polariton index out of bounds")
    ELSE Returned(P[index + 1])

\* Cavity::get_phonon(index)
get_phonon(H, index) ==
    IF index >= Len(H) THEN RangeError("Phonon index out of bounds")
    ELSE Returned(H[index + 1])

\* model.get_polariton(index) called by the program
GetPolariton ==
    /\ pc = "ready" /\ call.n < MaxOps
    /\ \E index \in 0..MaxPol :
           call' = [Entered("get_polariton") EXCEPT !.t = index,
                                                    !.x = get_polariton(polaritons, index)]
    /\ UNCHANGED <<polaritons, phonons, cavity, pc, ghost>>

\* model.get_phonon(index) called by the program
GetPhonon ==
    /\ pc = "ready" /\ call.n < MaxOps
    /\ \E index \in 0..MaxPh :
           call' = [Entered("get_phonon") EXCEPT !.t = index,
                                                 !.x = get_phonon(phonons, index)]
    /\ UNCHANGED <<polaritons, phonons, cavity, pc, ghost>>

\* an assembled system whose entities are looked up and given new values
NextGet == GetPolariton \/ GetPhonon \/ SetValue

SpecGet == InitStep /\ [][NextGet]_vars

\* the assembly is as it was when the last operation was entered
AssemblyUntouched ==
    /\ polaritons = call.P0 /\ phonons = call.H0
    /\ current_state = call.state0 /\ current_time = call.time0
    /\ used_time_step = call.step0

\* C16: get_polariton(i) and get_phonon(i) return the i-th entity in creation
\* order when i is less than the number of such entities and otherwise fail with a
\* range error; either way the state vector, the time and the entities are unchanged.
C16_GettersBoundedAndPure ==
    /\ call.op = "get_polariton" =>
           /\ IF call.t < Len(call.P0)
              THEN call.x.thrown = "none" /\ call.x.entity = call.P0[call.t + 1]
              ELSE call.x.thrown = "range_error"
           /\ AssemblyUntouched
    /\ call.op = "get_phonon" =>
           /\ IF call.t < Len(call.H0)
              THEN call.x.thrown = "none" /\ call.x.entity = call.H0[call.t + 1]
              ELSE call.x.thrown = "range_error"
           /\ AssemblyUntouched

\* after a set_value, the second of two differing oscillators has been returned
C16_Witness ==
    /\ call.op = "get_polariton" /\ call.t = 1 /\ Len(polaritons) = 2
    /\ call.x.thrown = "none" /\ call.x.entity = polaritons[2]
    /\ polaritons[1] # polaritons[2]
    /\ call.prev = "set_value"

----------------------------------------------------------------------------
(* polariton.h: the derivatives of single entities, asked outside any Cavity *)

\* the links tried on the first oscillator, each <<J, g, above>>, all to the second
\* oscillator through the one mode
LinkLists ==
    {<<>>, <<<<0, 0, TRUE>>>>, <<<<1, 0, TRUE>>>>, <<<<0, 1, FALSE>>>>,
     <<<<0, 0, TRUE>>, <<0, 0, FALSE>>>>}

RECURSIVE Linked(_, _, _)
\* site_1.connect(&site_2, &mode, J, g, 0.0, above) for links k.. of the list
Linked(P, links, k) ==
    IF k > Len(links) THEN P
    ELSE Linked(connect(P, 1, 2, 1, links[k][1], links[k][2], 0, links[k][3]), links, k + 1)

\* the entities whose derivatives are asked: two oscillators and one mode, the
\* first oscillator wired with one of the given link lists
DerivativeInputs(lists) ==
    {[P |-> Linked(LET sites == <<[PolaritonMode(1, U) EXCEPT !.value = v1],
                                   [PolaritonMode(1, 1) EXCEPT !.value = v2]>>
                       driven == set_driving(sites, 1, amp, 1)
                   IN IF res THEN add_reservoir(driven, 1, 1, 1, 2, 1, 6) ELSE driven,
                   links, 1),
      H |-> LET mode == [PhononMode(Omega, Gamma) EXCEPT !.position = x, !.velocity = v]
            IN IF c < 0 THEN <<mode>> ELSE add_pairing(<<mode>>, 1, <<1, 2>>, 0, c)] :
        U \in {0, 1}, v1 \in {<<1, 0>>, <<2, 3>>}, v2 \in {<<0, 0>>, <<2, 3>>},
        amp \in {<<0, 0>>, <<1, 1>>}, res \in BOOLEAN, links \in lists,
        Omega \in {1, 20}, Gamma \in {1, 2}, x \in {1, 4}, v \in {0, 5}, c \in {-1, 0, 1}}

InitDerivative ==
    /\ \E sys \in DerivativeInputs(LinkLists) : polaritons = sys.P /\ phonons = sys.H
    /\ current_time \in {0, 1}
    /\ current_state = <<>> /\ used_time_step = InitialStep
    /\ system_dimension = 0 /\ evaluating_rhs = FALSE
    /\ pc = "build"
    /\ dxdt = <<>> /\ call = NoCall /\ ref = NoRef /\ drv = NoDriver

\* site_1.derivative(t)
Derivative ==
    /\ call.op # "derivative"
    /\ call' = [NoCall EXCEPT !.op = "derivative",
                              !.x = PolaritonDerivative(polaritons, phonons, 1, current_time)]
    /\ UNCHANGED <<polaritons, phonons, cavity, pc, ghost>>

\* mode.second_derivative(t)
SecondDerivative ==
    /\ call.op # "second_derivative"
    /\ call' = [NoCall EXCEPT !.op = "second_derivative",
                              !.x = PhononSecondDerivative(polaritons, phonons, 1, current_time)]
    /\ UNCHANGED <<polaritons, phonons, cavity, pc, ghost>>

NextDerivative == Derivative \/ SecondDerivative

SpecDerivative == InitDerivative /\ [][NextDerivative]_vars

\* every link of the oscillator has J = g = 0
LinksAreZero(pol) ==
    \A i \in 1..pol.n_neighbors :
        pol.constant_couplings[i] = 0 /\ pol.phonon_couplings[i] = 0

\* every pairing of the mode has coupling 0
PairingsAreZero(ph) == \A i \in 1..ph.n_pairings : ph.couplings[i] = 0

\* -i*value*(-i*gamma + U*|value|^2) - i*drive_amp*exp(i*detuning*t)
Uncoupled(pol, t) ==
    LET intensity == Re(pol.value) * Re(pol.value) + Im(pol.value) * Im(pol.value)
        inner == <<pol.self_interaction * intensity, -pol.dissipative_gamma>>
    IN CAdd(CMul(MinusI, CMul(pol.value, inner)),
            CMul(MinusI, CMul(pol.r_driving_amp, Polar(pol.r_driving_detuning * t))))

\* reservoir_coupling * reservoir value * value, what an owned reservoir adds
ReservoirGain(pol) ==
    IF HasReservoir(pol)
    THEN CMul(CReal(pol.reservoir_coupling * pol.reservoir_owned[1].value), pol.value)
    ELSE <<0, 0>>

\* C17 as stated: with every link coupling J = g = 0 the derivative of an oscillator
\* equals -i*value*(-i*gamma + U*|value|^2) - i*drive_amp*exp(i*detuning*t),
\* whatever the neighbor amplitudes and the mode positions.
C17_ZeroCouplingDerivative ==
    (call.op = "derivative" /\ LinksAreZero(polaritons[1])) =>
        call.x = Uncoupled(polaritons[1], current_time)

\* C17: with every link coupling J = g = 0 the derivative of an oscillator equals
\* that expression plus reservoir_coupling * reservoir value * value when it owns a
\* reservoir, and exactly that expression when it owns none, whatever the neighbor
\* amplitudes and the mode positions.
C17_ZeroCouplingDerivativeWithGain ==
    (call.op = "derivative" /\ LinksAreZero(polaritons[1])) =>
        /\ call.x = CAdd(Uncoupled(polaritons[1], current_time), ReservoirGain(polaritons[1]))
        /\ ~HasReservoir(polaritons[1]) => call.x = Uncoupled(polaritons[1], current_time)

\* gamma = 1, U = 0, no drive, value = 1 + 0i at t = 0 gives -1 + 0i, with two
\* zero-coupling links to a neighbor of amplitude 2 + 3i through a mode at 4
C17_Witness ==
    /\ call.op = "derivative" /\ call.x = <<-1, 0>> /\ current_time = 0
    /\ polaritons[1].dissipative_gamma = 1 /\ polaritons[1].self_interaction = 0
    /\ polaritons[1].r_driving_amp = <<0, 0>> /\ polaritons[1].value = <<1, 0>>
    /\ polaritons[1].n_neighbors = 2 /\ LinksAreZero(polaritons[1])
    /\ polaritons[2].value = <<2, 3>> /\ phonons[1].position = 4

\* C18: with coupling = 0 in all of a mechanical mode's pairings, or no pairing at
\* all, second_derivative equals -Omega^2*position - Gamma*velocity, whatever the
\* oscillator amplitudes and t.
C18_DecoupledSecondDerivative ==
    (call.op = "second_derivative" /\ PairingsAreZero(phonons[1])) =>
        call.x = -(phonons[1].frequency * phonons[1].frequency * phonons[1].position)
                 - phonons[1].dissipation * phonons[1].velocity

\* Omega = 20, position = 1, velocity = 0 gives -400 at t = 1, with one pairing of
\* coupling 0 between oscillators of amplitudes 2 + 3i
C18_Witness ==
    /\ call.op = "second_derivative" /\ call.x = -400 /\ current_time = 1
    /\ phonons[1].frequency = 20 /\ phonons[1].position = 1 /\ phonons[1].velocity = 0
    /\ phonons[1].n_pairings = 1 /\ PairingsAreZero(phonons[1])
    /\ polaritons[1].value = <<2, 3>> /\ polaritons[2].value = <<2, 3>>

----------------------------------------------------------------------------
(* Properties of reservoir ownership *)

\* the reservoir sections of the loaded file that name the oscillator created as k
ReservoirsNaming(k) ==
    {r \in SectionsOf(call.file, "reservoir") :
        r.target \in DOMAIN drv.polariton_map /\ drv.polariton_map[r.target] = k}

\* C19: in every reachable state each oscillator owns at most one reservoir;
\* add_reservoir on an oscillator that already owns one replaces it (the reservoir
\* parameters, its value and the oscillator's reservoir coupling are those of the
\* latest call, the other oscillators are as before), and an oscillator given
\* several reservoirs contributes exactly one reservoir component to the state vector.
C19_OneReservoirPerOscillator ==
    /\ \A k \in 1..Len(polaritons) : Len(polaritons[k].reservoir_owned) <= 1
    /\ call.op = "add_reservoir" =>
           /\ polaritons[call.t].reservoir_owned
                  = <<NonResonantDriving(call.x[1], 1, 2, 1, call.x[2])>>
           /\ polaritons[call.t].reservoir_coupling = call.x[1]
           /\ \A k \in 1..Len(polaritons) : k # call.t => polaritons[k] = call.P0[k]
    /\ JustBuilt =>
           /\ Len(current_state) = 2 * Len(polaritons) + 2 * Len(phonons)
                                   + Cardinality(Owners(polaritons))
           /\ \A k \in Owners(polaritons) :
                  current_state[2 * Len(polaritons) + 2 * Len(phonons)
                                + OwnersBefore(polaritons, k) + 1]
                      = polaritons[k].reservoir_owned[1].value
    /\ (LoadReturned /\ pc = "ready") =>
           \A k \in 1..Len(polaritons) :
               /\ HasReservoir(polaritons[k]) <=> ReservoirsNaming(k) # {}
               /\ HasReservoir(polaritons[k]) =>
                      \E r \in ReservoirsNaming(k) : polaritons[k].reservoir_owned[1].value = r.n0

\* a file with two reservoirs on site_1 has been loaded: one reservoir component,
\* here holding the population 7 of the section r2
C19_Witness ==
    /\ LoadReturned /\ pc = "ready" /\ Len(polaritons) = 2 /\ Len(phonons) = 1
    /\ "site_1" \in DOMAIN drv.polariton_map
    /\ Cardinality(ReservoirsNaming(drv.polariton_map["site_1"])) = 2
    /\ Len(current_state) = 7
    /\ current_state[7] = 7

----------------------------------------------------------------------------
(* Wiring the graph through connect and add_pairing, then constructing *)

NextGraph == NewPolariton \/ NewPhonon \/ Connect \/ AddPairing \/ Construct

SpecGraph == Init /\ [][NextGraph]_vars

\* C20: after any sequence of connect and add_pairing calls each oscillator's six
\* link arrays have one length, its neighbor count, and each mechanical mode's three
\* pairing arrays have one length, its pairing count; so the check run at
\* construction never raises its structural error.
C20_LinkArraysAligned ==
    /\ \A p \in 1..Len(polaritons) :
           LET pol == polaritons[p]
           IN /\ Len(pol.neighboring_polaritons) = pol.n_neighbors
              /\ Len(pol.neighboring_phonons) = pol.n_neighbors
              /\ Len(pol.constant_couplings) = pol.n_neighbors
              /\ Len(pol.phonon_couplings) = pol.n_neighbors
              /\ Len(pol.detunings_from_resonance) = pol.n_neighbors
              /\ Len(pol.signs) = pol.n_neighbors
    /\ \A h \in 1..Len(phonons) :
           LET ph == phonons[h]
           IN /\ Len(ph.pairs) = ph.n_pairings
              /\ Len(ph.detunings) = ph.n_pairings
              /\ Len(ph.couplings) = ph.n_pairings
    /\ pc # "domain_error"

\* a graph with a link and a pairing has been constructed
C20_Witness ==
    /\ pc = "ready" /\ call.op = "Cavity"
    /\ Len(polaritons) = 2 /\ Len(phonons) = 1
    /\ polaritons[2].n_neighbors = 1 /\ phonons[1].n_pairings = 1

----------------------------------------------------------------------------
(* Properties of the driver's loops *)

\* main has returned or the process has been ended
DriverEnded == pc \in {"exit", "terminated", "crashed"}

\* the calls of adaptive_step never exceed the two iteration counts, and a run that
\* writes its output has made exactly that many, whatever was rejected
WorkIsBounded ==
    /\ drv.attempts <= transient + stationary
    /\ drv.rejected <= drv.attempts
    /\ drv.written => drv.attempts = transient + stationary
    /\ pc = "stationary" => drv.attempts = transient + drv.i

\* the statements main has left to execute at most: the iterations of both loops
\* and the statements around them
Remaining ==
    CASE pc = "build" -> transient + stationary + 4
      [] pc = "ready" -> transient + stationary + 3
      [] pc = "transient" -> (transient - drv.i) + stationary + 2
      [] pc = "stationary" -> (stationary - drv.i) + 1
      [] pc = "load_error" -> 1
      [] DriverEnded -> 0

\* C21: the driver's work is bounded by its iteration counts: it makes exactly
\* transient + stationary calls of adaptive_step and then terminates, however many
\* of the attempts are rejected and however far the time has advanced.  Every
\* statement executed, an attempt rejected or accepted alike, brings the end nearer.
C21_DriverWorkBounded ==
    [](WorkIsBounded /\ Remaining >= 0) /\ [][Remaining' < Remaining]_vars

\* the output has been written after transient + stationary attempts, all rejected
C21_Witness ==
    /\ pc = "exit" /\ drv.written
    /\ drv.attempts = transient + stationary
    /\ drv.rejected = drv.attempts

----------------------------------------------------------------------------
(* Properties of the vector field *)

\* the last operation was a call of operator() by the program
Evaluated == call.op = "operator()"

\* the entities as unpack_state(x) leaves those the call found
UnpackedP == UnpackStateP(call.P0, call.H0, call.x)
UnpackedH == UnpackStateH(call.P0, call.H0, call.x)

\* C23: evaluate produces a vector of dimension N and writes each entity's
\* derivative at the components pack uses for that entity: oscillator k's at 2k and
\* 2k+1; for mode j the velocity component 2p+2j+1 of the input copied to 2p+2j and
\* the acceleration at 2p+2j+1; the reservoir derivative of the i-th owner at
\* 2p+2m+i; every derivative is that of the entities with the whole input unpacked.
\* Components are counted from 0 in the claim and from 1 here.
C23_DerivativesAtPackOffsets ==
    Evaluated =>
        LET p == Len(call.P0)
            m == Len(call.H0)
        IN /\ Len(dxdt) = system_dimension
           /\ \A k \in 1..p :
                  <<dxdt[2 * k - 1], dxdt[2 * k]>>
                      = PolaritonDerivative(UnpackedP, UnpackedH, k, call.t)
           /\ \A j \in 1..m :
                  /\ dxdt[2 * p + 2 * j - 1] = call.x[2 * p + 2 * j]
                  /\ dxdt[2 * p + 2 * j] = PhononSecondDerivative(UnpackedP, UnpackedH, j, call.t)
           /\ \A k \in Owners(call.P0) :
                  dxdt[2 * p + 2 * m + OwnersBefore(call.P0, k) + 1]
                      = ReservoirDerivative(UnpackedP, k, call.t)

\* the two-site network with both reservoirs has been evaluated on a vector that is
\* not its state, after the entities were given other values
C23_Witness ==
    /\ Evaluated /\ system_dimension = 8 /\ Len(dxdt) = 8
    /\ call.x # current_state /\ call.t = 3
    /\ call.P0 # UnpackedP
    /\ dxdt[5] # dxdt[6]

\* C24: evaluate(x, dxdt, t) leaves the flat state vector, the stored time and the
\* remembered step size unchanged; the only state it changes is the entities'
\* fields, which afterwards hold the unpacking of x, and the evaluating flag is
\* false again when it returns.
C24_EvaluateFrame ==
    Evaluated =>
        /\ current_state = call.state0
        /\ current_time = call.time0
        /\ used_time_step = call.step0
        /\ system_dimension = Len(call.state0)
        /\ polaritons = UnpackedP
        /\ phonons = UnpackedH
        /\ evaluating_rhs = FALSE

\* after a step, the assembly has been evaluated on a vector that is not its state:
\* the entities hold that vector, the state vector does not
C24_Witness ==
    /\ Evaluated /\ call.prev \in {"do_step", "adaptive_step"}
    /\ call.x # current_state
    /\ polaritons # call.P0
    /\ PackState(polaritons, phonons, current_state) # current_state
    /\ current_time = call.time0

----------------------------------------------------------------------------
(* Properties of one adaptive_step *)

\* the last operation was a call of adaptive_step by the program
Attempted == call.op = "adaptive_step"

\* what a single attempt from the state the call found can leave, for the verdict
\* the stepper reached
OneAttempt ==
    {try_step(call.P0, call.H0, system_dimension, call.state0, call.time0, call.step0,
              call.ok, grow) : grow \in BOOLEAN}

\* C25: adaptive_step makes exactly one attempt with the remembered step size h and
\* ignores the verdict: after an accepted attempt the stored time is larger by
\* exactly h and the remembered step size is the stepper's suggestion; after a
\* rejected one the state vector and the stored time are exactly as before the call
\* and the remembered step size is strictly smaller than h.
C25_OneAttemptPerCall ==
    Attempted =>
        /\ \E r \in OneAttempt :
               /\ current_state = r.x /\ current_time = r.t /\ used_time_step = r.dt
        /\ IF call.ok
           THEN /\ current_time = call.time0 + call.step0
                /\ used_time_step \in {call.step0, 2 * call.step0}
           ELSE /\ current_state = call.state0
                /\ current_time = call.time0
                /\ used_time_step < call.step0

\* a rejected call followed by an accepted one at the smaller step size
C25_Witness ==
    /\ Attempted /\ call.ok /\ call.prev = "adaptive_step"
    /\ call.step0 < InitialStep
    /\ current_time = call.time0 + call.step0
    /\ current_state # call.state0

----------------------------------------------------------------------------
(* A reservoir attached after the Cavity has been constructed *)

\* the values a read past the end of the vector may return
Junk == {0, 3}

RECURSIVE ReservoirSlots(_, _, _)
\* the components the third loop of pack_state and unpack_state addresses, in turn
ReservoirSlots(P, k, idx) ==
    IF k > Len(P) THEN <<>>
    ELSE IF HasReservoir(P[k]) THEN <<idx>> \o ReservoirSlots(P, k + 1, idx + 1)
    ELSE ReservoirSlots(P, k + 1, idx)

\* the components addressed that a vector of n components does not have
PastTheEnd(P, H, n) ==
    LET slots == ReservoirSlots(P, 1, 2 * Len(P) + 2 * Len(H))
    IN {slots[i] : i \in {j \in 1..Len(slots) : slots[j] >= n}}

\* the first of them, -1 if there is none
FirstPastTheEnd(P, H, n) ==
    IF PastTheEnd(P, H, n) = {} THEN -1
    ELSE CHOOSE i \in PastTheEnd(P, H, n) : \A j \in PastTheEnd(P, H, n) : i <= j

RECURSIVE UnpackReservoirsLate(_, _, _, _, _, _)
\* third loop of unpack_state on a vector that may be too short: the element access
\* x(idx) past the end throws where the library checks bounds and returns whatever
\* lies there where it does not
UnpackReservoirsLate(P, x, k, idx, thrown, junk) ==
    IF k > Len(P) THEN P
    ELSE IF ~HasReservoir(P[k]) THEN UnpackReservoirsLate(P, x, k + 1, idx, thrown, junk)
    ELSE IF idx < Len(x)
    THEN UnpackReservoirsLate([P EXCEPT ![k].reservoir_owned[1].value = x[idx + 1]],
                              x, k + 1, idx + 1, thrown, junk)
    ELSE IF thrown THEN P
    ELSE UnpackReservoirsLate([P EXCEPT ![k].reservoir_owned[1].value = junk],
                              x, k + 1, idx + 1, thrown, junk)

\* Cavity::unpack_state(x) on such a vector: the oscillators afterwards
UnpackStatePLate(P, H, x, thrown, junk) ==
    UnpackReservoirsLate(UnpackPolaritons(P, x, 1, 0), x, 1, 2 * Len(P) + 2 * Len(H),
                         thrown, junk)

\* whether the bounds check fires, for the accesses the call makes
BoundsChecks(P, H, n) == IF PastTheEnd(P, H, n) = {} THEN {FALSE} ELSE BOOLEAN

\* a Cavity that grows its vector when one of its oscillators is given a reservoir
AddReservoirLate_Resizes ==
    /\ pc = "ready" /\ call.n < MaxOps
    /\ \E p \in 1..Len(polaritons), args \in ReservoirArgs :
           /\ IF HasReservoir(polaritons[p])
              THEN polaritons[p].reservoir_owned[1].value # args[2] ELSE TRUE
           /\ polaritons' = add_reservoir(polaritons, p, args[1], 1, 2, 1, args[2])
           /\ system_dimension' = CountDimension(polaritons', phonons)
           /\ current_state' = PackState(polaritons', phonons, SetSize(system_dimension'))
           /\ call' = [Entered("add_reservoir") EXCEPT !.t = p, !.x = args]
    /\ UNCHANGED <<phonons, current_time, used_time_step, evaluating_rhs, pc, ghost>>

\* PolaritonMode::add_reservoir on an oscillator of a constructed Cavity
AddReservoirLate ==
    /\ pc = "ready" /\ call.n < MaxOps
    /\ \E p \in 1..Len(polaritons), args \in ReservoirArgs :
           /\ IF HasReservoir(polaritons[p])
              THEN polaritons[p].reservoir_owned[1].value # args[2] ELSE TRUE
           /\ polaritons' = add_reservoir(polaritons, p, args[1], 1, 2, 1, args[2])
           /\ call' = [Entered("add_reservoir") EXCEPT !.t = p, !.x = args]
    /\ UNCHANGED <<phonons, cavity, pc, ghost>>

\* Cavity::pack_state: a write past the end throws out of the call where bounds are
\* checked, after the components before it were written; where they are not, it
\* lands outside the vector
PackStateLate ==
    /\ pc = "ready" /\ call.n < MaxOps
    /\ current_state' = PackState(polaritons, phonons, current_state)
    /\ \E thrown \in BoundsChecks(polaritons, phonons, Len(current_state)) :
           pc' = IF thrown THEN "logic_error" ELSE pc
    /\ call' = [Entered("pack_state") EXCEPT
                   !.t = FirstPastTheEnd(polaritons, phonons, Len(current_state)),
                   !.ok = PastTheEnd(polaritons, phonons, Len(current_state)) = {}]
    /\ UNCHANGED <<polaritons, phonons, current_time, used_time_step, system_dimension,
                   evaluating_rhs, ghost>>

\* Cavity::unpack_state(get_state())
UnpackStateLate ==
    /\ pc = "ready" /\ call.n < MaxOps
    /\ \E thrown \in BoundsChecks(polaritons, phonons, Len(current_state)), junk \in Junk :
           /\ polaritons' = UnpackStatePLate(polaritons, phonons, current_state, thrown, junk)
           /\ pc' = IF thrown THEN "logic_error" ELSE pc
    /\ phonons' = UnpackStateH(polaritons, phonons, current_state)
    /\ call' = [Entered("unpack_state") EXCEPT
                   !.x = current_state,
                   !.t = FirstPastTheEnd(polaritons, phonons, Len(current_state)),
                   !.ok = PastTheEnd(polaritons, phonons, Len(current_state)) = {}]
    /\ UNCHANGED <<cavity, ghost>>

\* Cavity::operator()(get_state(), dxdt, get_time()): its unpack_state reads past the
\* end first; when that throws the flag stays set and no derivative is written
EvaluateLate ==
    /\ pc = "ready" /\ call.n < MaxOps
    /\ \E thrown \in BoundsChecks(polaritons, phonons, Len(current_state)), junk \in Junk :
        \E E \in {<<UnpackStatePLate(polaritons, phonons, current_state, thrown, junk),
                    UnpackStateH(polaritons, phonons, current_state)>>} :
           /\ polaritons' = E[1]
           /\ phonons' = E[2]
           /\ dxdt' = IF thrown THEN SetSize(system_dimension)
                      ELSE Derivatives(E[1], E[2], system_dimension, current_time)
           /\ evaluating_rhs' = thrown
           /\ pc' = IF thrown THEN "logic_error" ELSE pc
    /\ call' = [Entered("operator()") EXCEPT
                   !.x = current_state,
                   !.t = FirstPastTheEnd(polaritons, phonons, Len(current_state)),
                   !.ok = PastTheEnd(polaritons, phonons, Len(current_state)) = {}]
    /\ UNCHANGED <<current_state, current_time, used_time_step, system_dimension, ref, drv>>

NextLate == AddReservoirLate \/ PackStateLate \/ UnpackStateLate \/ EvaluateLate

SpecLate == InitStep /\ [][NextLate]_vars

\* the reservoir components a vector x has for the entities P, H
ReservoirComponents(P, H, x) == Len(x) - 2 * Len(P) - 2 * Len(H)

\* C26: attaching a reservoir to an oscillator that had none, after the assembly has
\* been constructed, leaves the dimension N and the state vector as they were: the
\* reservoir-owning oscillators then outnumber the reservoir components, and the
\* next pack_state, unpack_state or evaluate addresses component N, past the end.
C26_LateReservoirLeavesDimensionStale ==
    /\ system_dimension = Len(current_state)
    /\ (call.op = "add_reservoir" /\ ~HasReservoir(call.P0[call.t])) =>
           /\ current_state = call.state0
           /\ Cardinality(Owners(polaritons))
                  > ReservoirComponents(polaritons, phonons, current_state)
    /\ (call.op \in {"pack_state", "unpack_state", "operator()"}
          /\ Cardinality(Owners(call.P0)) > ReservoirComponents(call.P0, call.H0, call.state0))
           => (~call.ok /\ call.t = system_dimension)

\* a reservoir was attached to the single oscillator of a constructed assembly and
\* the pack_state after it has written to component 2 of a 2-component vector
C26_Witness ==
    /\ call.op = "pack_state" /\ call.prev = "add_reservoir"
    /\ Len(polaritons) = 1 /\ system_dimension = 2 /\ call.t = 2 /\ ~call.ok
    /\ HasReservoir(polaritons[1])
    /\ pc = "logic_error"

----------------------------------------------------------------------------
(* Entity fields changed by the program between steps *)

\* NonResonantDriving::set_value on the reservoir of an oscillator
SetReservoir ==
    /\ pc = "ready" /\ call.n < MaxOps
    /\ \E p \in Owners(polaritons), n0 \in Populations :
           /\ polaritons[p].reservoir_owned[1].value # n0
           /\ polaritons' = [polaritons EXCEPT ![p].reservoir_owned[1].value = n0]
    /\ call' = Entered("reservoir.set_value")
    /\ UNCHANGED <<phonons, cavity, pc, ghost>>

NextOutOfBand ==
    \/ SetValue \/ SetPhonon \/ SetReservoir \/ PackStateCall \/ DoStep \/ AdaptiveStep

SpecOutOfBand == InitStep /\ [][NextOutOfBand]_vars

\* the entities the call found, with their state fields as the state vector has them
FromVectorP == UnpackStateP(call.P0, call.H0, call.state0)
FromVectorH == UnpackStateH(call.P0, call.H0, call.state0)

\* the fields of the entities the call found differ from the state vector
ChangePending == PackState(call.P0, call.H0, call.state0) # call.state0

\* C27: a change of an entity's state field (amplitude, position, velocity,
\* reservoir value) made after construction reaches the trajectory only if
\* pack_state is called before the next step: pack_state puts the fields into the
\* state vector; a do_step or adaptive_step computes the new state from the state
\* vector alone, whatever the fields held, and leaves the fields equal to the
\* vector, so a change that was not packed is lost.
C27_UnpackedChangeIsLost ==
    /\ call.op = "pack_state" =>
           current_state = PackState(call.P0, call.H0, call.state0)
    /\ call.op = "do_step" =>
           current_state = rk4_do_step(FromVectorP, FromVectorH, system_dimension,
                                       call.state0, call.time0, call.dt).x
    /\ call.op = "adaptive_step" =>
           \E grow \in BOOLEAN :
               current_state = try_step(FromVectorP, FromVectorH, system_dimension,
                                        call.state0, call.time0, call.step0, call.ok, grow).x
    /\ call.op \in {"do_step", "adaptive_step"} =>
           PackState(polaritons, phonons, current_state) = current_state

\* a do_step right after a reservoir was given a value that was not packed: the
\* reservoir holds the vector's value again
C27_Witness ==
    /\ call.op = "do_step" /\ call.prev = "reservoir.set_value" /\ ChangePending
    /\ Len(polaritons) = 2 /\ HasReservoir(polaritons[2])
    /\ polaritons[2].reservoir_owned[1].value = current_state[system_dimension]
    /\ polaritons[2].reservoir_owned[1].value # call.P0[2].reservoir_owned[1].value

----------------------------------------------------------------------------
(* Properties of the loader's resolution of names *)

\* the coupling declarations of the loaded file that leave oscillator k, the pairing
\* declarations on mechanical mode h, and those of them whose names all resolve
CouplingsFrom(k) ==
    {c \in SectionsOf(call.file, "coupling") :
        /\ {c.from, c.to} \subseteq DOMAIN drv.polariton_map
        /\ c.phonon \in DOMAIN drv.phonon_map
        /\ drv.polariton_map[c.from] = k}
PairingsOn(h) ==
    {b \in SectionsOf(call.file, "pairing") :
        /\ b.phonon \in DOMAIN drv.phonon_map /\ drv.phonon_map[b.phonon] = h
        /\ Len(b.sites) >= 2
        /\ {b.sites[1], b.sites[2]} \subseteq DOMAIN drv.polariton_map}

\* the links of oscillator k are, one each and in some order, the declarations S
LinksAre(k, S) ==
    LET pol == polaritons[k]
    IN /\ pol.n_neighbors = Cardinality(S)
       /\ Len(pol.neighboring_polaritons) = Cardinality(S)
       /\ \E o \in Orderings(S) : \A i \in 1..Cardinality(S) :
              /\ pol.neighboring_polaritons[i] = drv.polariton_map[o[i].to]
              /\ pol.neighboring_phonons[i] = drv.phonon_map[o[i].phonon]
              /\ pol.signs[i] = IF o[i].above THEN 1 ELSE -1

\* the pairings of mechanical mode h are, one each and in some order, the declarations S
PairingsAre(h, S) ==
    LET ph == phonons[h]
    IN /\ ph.n_pairings = Cardinality(S)
       /\ \E o \in Orderings(S) : \A i \in 1..Cardinality(S) :
              ph.pairs[i] = <<drv.polariton_map[o[i].sites[1]],
                              drv.polariton_map[o[i].sites[2]]>>

\* C28: load_from_ini creates every oscillator and mechanical mode before it
\* resolves any reference: whether the load succeeds or fails on a reference, every
\* declared oscillator and mode exists under its name, wherever the file declares
\* it; a reservoir, coupling or pairing resolves to the index of the entity with
\* the name it gives; and each resolved coupling from=a, to=b, phonon=c has
\* appended to oscillator a exactly one link to oscillator b mediated by mode c.
C28_ReferencesResolveByName ==
    LoadReturned =>
        LET file == call.file
            pm == drv.polariton_map
            hm == drv.phonon_map
        IN /\ DOMAIN pm = Declared(file) /\ DOMAIN hm = DeclaredModes(file)
           /\ Len(polaritons) = Cardinality(Declared(file))
           /\ Len(phonons) = Cardinality(DeclaredModes(file))
           /\ \A s \in SectionsOf(file, "polariton") :
                  /\ pm[s.name] \in 1..Len(polaritons)
                  /\ polaritons[pm[s.name]].value = <<s.initial_real, s.initial_imag>>
           /\ \A s \in SectionsOf(file, "phonon") :
                  /\ hm[s.name] \in 1..Len(phonons)
                  /\ phonons[hm[s.name]].position = s.initial_position
           /\ \A k \in 1..Len(polaritons) :
                  /\ \E S \in SUBSET CouplingsFrom(k) : LinksAre(k, S)
                  /\ pc = "ready" => LinksAre(k, CouplingsFrom(k))
                  /\ pc = "ready" =>
                         (HasReservoir(polaritons[k]) <=>
                              \E r \in SectionsOf(file, "reservoir") : pm[r.target] = k)
           /\ \A h \in 1..Len(phonons) :
                  /\ \E S \in SUBSET PairingsOn(h) : PairingsAre(h, S)
                  /\ pc = "ready" => PairingsAre(h, PairingsOn(h))

\* a file whose first section is a pairing and whose oscillators and modes come
\* last has been loaded, site_2 and mode_2 created first: site_2 has its two links
C28_Witness ==
    /\ LoadReturned /\ pc = "ready" /\ call.file[1].type = "pairing"
    /\ Len(polaritons) = 2 /\ Len(phonons) = 2
    /\ drv.polariton_map["site_2"] = 1 /\ drv.phonon_map["mode_2"] = 1
    /\ polaritons[1].n_neighbors = 2
    /\ polaritons[1].neighboring_phonons = <<2, 1>>
    /\ HasReservoir(polaritons[1])
    /\ phonons[1].pairs = <<<<1, 2>>>>

----------------------------------------------------------------------------
(* Properties of the order the loader creates oscillators in *)

\* the oscillator declarations of a file, in the order the file holds them
IsPolaritonSection(s) == s.type = "polariton"
DeclaredInOrder(file) == SelectSeq(file, IsPolaritonSection)

\* C29: after a successful load_from_ini the oscillators occupy the state vector in
\* the order their sections are declared in the file: the first declared at
\* components 0-1, the second at 2-3 (here counted from 1), as main of
\* build_from_file.cpp takes it when it reads components 0-3 as site_1 and site_2.
C29_DeclarationOrderInStateVector ==
    (LoadReturned /\ pc = "ready") =>
        \A i \in 1..Len(DeclaredInOrder(call.file)) :
            LET s == DeclaredInOrder(call.file)[i]
            IN /\ drv.polariton_map[s.name] = i
               /\ current_state[2 * i - 1] = s.initial_real
               /\ current_state[2 * i] = s.initial_imag

----------------------------------------------------------------------------
(* test.cpp: the standalone two-site system, and the same network as a Cavity *)

\* the values of struct Params tried; delta is read by rhs and used nowhere
ParamSets ==
    {[gamma1 |-> 1, gamma2 |-> 2, U1 |-> u, U2 |-> 2 * u, J |-> j, g |-> g0, delta |-> 0,
      Omega |-> w, Gamma |-> 1, xi |-> 2, tau |-> 2, P |-> 3, alpha |-> a] :
        u \in {0, 1}, j \in {0, 1}, g0 \in {1, 2}, w \in {1, 3}, a \in {1, 2}}

\* the states [Re phi1, Im phi1, Re phi2, Im phi2, x, v, n] and the times tried
States7 ==
    {<<a, b, 2, c, x, v, n>> :
        a \in {1, -2}, b \in {0, 3}, c \in {-1, 1}, x \in {0, 3}, v \in {-1, 2}, n \in {0, 2}}
Times == 0..3

\* abs(z) * abs(z)
Abs2(z) == Bind(z, LAMBDA w : w[1] * w[1] + w[2] * w[2])

\* an rhs whose back-action enters dv/dt with the sign of its comment
rhs_CommentSign(params, y, t) ==
    LET phi1 == <<y[1], y[2]>>
        phi2 == <<y[3], y[4]>>
        x == y[5]
        v == y[6]
        n == y[7]
        H1 == CMul(phi1, CAdd(CAdd(CMul(MinusI, CReal(params.gamma1)),
                                   CReal(params.U1 * Abs2(phi1))),
                              CMul(CMul(ImagUnit, CReal(params.xi)), CReal(n))))
        coupling_1to2 == CMul(CMul(CReal(params.J + params.g * x), Polar(params.Omega * t)),
                              phi2)
        dphi1dt == CMul(MinusI, CAdd(H1, coupling_1to2))
        H2 == CMul(phi2, CAdd(CMul(MinusI, CReal(params.gamma2)),
                              CReal(params.U2 * Abs2(phi2))))
        coupling_2to1 == CMul(CMul(CReal(params.J + params.g * x), Polar(-params.Omega * t)),
                              phi1)
        dphi2dt == CMul(MinusI, CAdd(H2, coupling_2to1))
        backaction == CMul(CMul(CMul(CReal(params.g), phi1), CConj(phi2)),
                           Polar(-params.Omega * t))
        dvdt == -params.Omega * params.Omega * x - params.Gamma * v
                + 2 * params.Omega * params.Gamma * Re(backaction)
        dndt == params.tau * (params.P - n * (1 + params.alpha * params.alpha * Abs2(phi1)))
    IN <<Re(dphi1dt), Im(dphi1dt), Re(dphi2dt), Im(dphi2dt), v, dvdt, dndt>>

\* rhs(y, dydt, t) of test.cpp, params being its global
rhs(params, y, t) ==
    LET phi1 == <<y[1], y[2]>>
        phi2 == <<y[3], y[4]>>
        x == y[5]
        v == y[6]
        n == y[7]
        H1 == CMul(phi1, CAdd(CAdd(CMul(MinusI, CReal(params.gamma1)),
                                   CReal(params.U1 * Abs2(phi1))),
                              CMul(CMul(ImagUnit, CReal(params.xi)), CReal(n))))
        coupling_1to2 == CMul(CMul(CReal(params.J + params.g * x), Polar(params.Omega * t)),
                              phi2)
        dphi1dt == CMul(MinusI, CAdd(H1, coupling_1to2))
        H2 == CMul(phi2, CAdd(CMul(MinusI, CReal(params.gamma2)),
                              CReal(params.U2 * Abs2(phi2))))
        coupling_2to1 == CMul(CMul(CReal(params.J + params.g * x), Polar(-params.Omega * t)),
                              phi1)
        dphi2dt == CMul(MinusI, CAdd(H2, coupling_2to1))
        backaction == CMul(CMul(CMul(CReal(params.g), phi1), CConj(phi2)),
                           Polar(-params.Omega * t))
        dvdt == -params.Omega * params.Omega * x - params.Gamma * v
                - 2 * params.Omega * params.Gamma * Re(backaction)
        dndt == params.tau * (params.P - n * (1 + params.alpha * params.alpha * Abs2(phi1)))
    IN <<Re(dphi1dt), Im(dphi1dt), Re(dphi2dt), Im(dphi2dt), v, dvdt, dndt>>

\* the network of polariton_power_sweep_nr.cpp with the parameters of Params and
\* its reservoir on site_1 alone
Network(params) ==
    LET sites == <<PolaritonMode(params.gamma1, params.U1),
                   PolaritonMode(params.gamma2, params.U2)>>
        pumped == add_reservoir(sites, 1, params.xi, params.tau, params.P, params.alpha, 0)
        linked == connect(connect(pumped, 1, 2, 1, params.J, params.g, 0, TRUE),
                          2, 1, 1, params.J, params.g, 0, FALSE)
        phonon == PhononMode(params.Omega, params.Gamma)
    IN [P |-> linked, H |-> add_pairing(<<phonon>>, 1, <<1, 2>>, 0, params.g)]

\* the Cavity built on the network, and the parameters given to the reference
InitReference ==
    /\ \E params \in ParamSets :
           /\ polaritons = Network(params).P
           /\ phonons = Network(params).H
           /\ ref = [NoRef EXCEPT !.P0 = params]
    /\ system_dimension = CountDimension(polaritons, phonons)
    /\ current_state = PackState(polaritons, phonons, SetSize(system_dimension))
    /\ current_time = 0
    /\ used_time_step = InitialStep
    /\ evaluating_rhs = FALSE
    /\ pc = "ready"
    /\ dxdt = <<>> /\ call = [NoCall EXCEPT !.op = "Cavity"] /\ drv = NoDriver

\* Cavity::operator()(x, dxdt, t) at a state and a time
FieldOfCavity ==
    /\ pc = "ready" /\ call.op = "Cavity"
    /\ \E x \in States7, t \in Times :
        \E e \in {Evaluate(polaritons, phonons, system_dimension, x, t)} :
           /\ polaritons' = e.P
           /\ phonons' = e.H
           /\ dxdt' = e.dxdt
           /\ call' = [Entered("operator()") EXCEPT !.x = x, !.t = t]
    /\ evaluating_rhs' = FALSE
    /\ UNCHANGED <<current_state, current_time, used_time_step, system_dimension, pc,
                   ref, drv>>

\* rhs of test.cpp at the same state and time
FieldOfReference ==
    /\ call.op = "operator()" /\ ~ref.set
    /\ ref' = [ref EXCEPT !.x = call.x, !.t = call.t, !.set = TRUE,
                          !.out = rhs(ref.P0, call.x, call.t)]
    /\ UNCHANGED <<polaritons, phonons, cavity, pc, dxdt, call, drv>>

NextReference == FieldOfCavity \/ FieldOfReference

SpecReference == InitReference /\ [][NextReference]_vars

====
